---- MODULE Spec2Model ----
(***************************************************************************)
(* Model of the file-synchronizer server core: the content store           *)
(* (file-storage.js), the per-record metadata store (metadata-storage,     *)
(* the variant that keeps one JSON document per fileId), and the HTTP      *)
(* handlers of server.js that write to them (upload-safe with its          *)
(* in-memory upload window, chunked upload, restore, delete, rename).      *)
(*                                                                         *)
(* A handler is one atomic action: requests do not overlap here.           *)
(* File names are pairs <<base, ext>>; contents are sequences of symbols;  *)
(* times are integers in milliseconds on one axis (Date.now() and the      *)
(* clients' lastModified).                                                 *)
(***************************************************************************)
EXTENDS Integers, Sequences, FiniteSets, TLC

VARIABLES
    files,          \* files/<name>            : name -> bytes (current blobs)
    versions,       \* versions/<name>.v<k>    : <<name, k>> -> bytes
    metadata,       \* metadata/files/<id>.json: fileId -> version record
    conflicts,      \* metadata/conflicts/<id>.json : conflictId -> conflict record
    chunks,         \* chunks/<fileId>_<n>     : <<fileId, n>> -> bytes
    recentUploads,  \* global.recentUploads    : name -> sequence of window entries
    now,            \* wall clock of the server (Date.now())
    sessions,       \* chunked uploads a client has in progress: fileId -> session
    resp,           \* the last request together with the answer it received
    conflictFiles,  \* metadata/conflicts/<id>.json as bytes on disk: id -> text
    savers,         \* calls of saveConflict in progress: caller -> position and document
    servers,        \* LoadBalancer.servers: port -> { healthy, lastCheck }
    processes,      \* worker processes spawned and not yet exited: port -> condition
    timers,         \* pending setTimeout(() => this.startServerInstance(), ...)
    waiting,        \* ports with a waitForServerStart in progress
    currentPort,    \* LoadBalancer.currentPort
    initialLeft,    \* iterations startInitialServers has still to run
    initWait,       \* the port startInitialServers is awaiting (0: none)
    crashes,        \* worker crashes so far
    hangs,          \* workers that stopped answering so far
    minInstances,   \* LoadBalancer.minInstances
    maxInstances,   \* LoadBalancer.maxInstances
    roundRobinIndex, \* LoadBalancer.roundRobinIndex
    requests,       \* requests the proxy has received, in order of arrival
    local,          \* the client's sync folder: name -> content and mtime
    events,         \* file-system changes the watcher has still to report
    pendingUploads, \* SyncManager.pendingUploads (its keys)
    pendingDeletions, \* SyncManager.pendingDeletions
    recentlyDeleted, \* SyncManager.recentlyDeleted
    fileSyncStatus, \* SyncManager.fileSyncStatus: name -> status and version
    calls,          \* upload requests of the client that are in flight
    online,         \* whether the client reaches the server
    syncs,          \* 0 before the first reconciler pass, then 1 and 2 in turn
    lastConflictLocalInfo, \* SyncManager.lastConflictLocalInfo
    edits,          \* changes the user has made in the sync folder so far
    unsent,         \* the changes (name, content) reported while the server was unreachable
    handling,       \* upload-safe requests a worker is handling: request -> position and data
    peerUploads,    \* global.recentUploads of a second worker process
    writers,        \* calls of fs.writeFile on a current blob in progress: writer -> name, bytes, bytes written
    reads,          \* what downloads of a current blob have returned
    complete,       \* name -> the bytes of the last write that finished
    shutdownPhase,  \* supervisor: "running", "begun" (shutdown() called), "done" (shutdown() resolved, process.exit)
    syncIntervalId, \* client: the periodic timer is set
    isPaused,       \* client: SyncManager.isPaused
    syncRuns,       \* client: reconciler runs begun, each with its origin and the await it has reached
    ignoredFiles,   \* watcher: FileWatcher.ignoredFiles
    debounceTimers, \* watcher: names with a pending debounce timer
    downloading,    \* client: downloads in flight per name
    unignoreTimers  \* client: pending un-ignore calls per name

serverVars == <<files, versions, metadata, conflicts, chunks, recentUploads, now, sessions, resp>>

saverVars == <<conflictFiles, savers>>

lbVars == <<servers, processes, timers, waiting, currentPort, initialLeft, initWait,
            crashes, hangs, minInstances, maxInstances>>

proxyVars == <<roundRobinIndex, requests>>

clientVars == <<local, events, pendingUploads, pendingDeletions, recentlyDeleted,
                fileSyncStatus, calls, online, syncs, lastConflictLocalInfo, edits, unsent>>

handlerVars == <<handling, peerUploads>>

diskVars == <<writers, reads, complete>>

shutdownVars == <<shutdownPhase>>

reconcilerVars == <<syncIntervalId, isPaused, syncRuns>>

watcherVars == <<ignoredFiles, debounceTimers, downloading, unignoreTimers>>

vars == <<serverVars, saverVars, lbVars, proxyVars, clientVars, handlerVars, diskVars, shutdownVars, reconcilerVars, watcherVars>>

\* what a step of one component leaves alone
notServerVars == <<saverVars, lbVars, proxyVars, clientVars, handlerVars, diskVars, shutdownVars, reconcilerVars, watcherVars>>

notSaverVars == <<serverVars, lbVars, proxyVars, clientVars, handlerVars, diskVars, shutdownVars, reconcilerVars, watcherVars>>

notSupervisorVars == <<serverVars, saverVars, proxyVars, clientVars, handlerVars, diskVars, shutdownVars, reconcilerVars, watcherVars>>

(***************************************************************************)
(* Bounds of the model.                                                    *)
(***************************************************************************)
MaxIds == 2
MaxWindowIds == 3
MaxConflicts == 2
MaxTicks == 1
MaxSessions == 1
MaxChunks == 2
ClockStep == 11000
MaxCrashes == 1
MaxHangs == 1
MaxRequests == 2
MaxEdits == 2
MaxCalls == 2
MaxClientIds == 2

(***************************************************************************)
(* Program constants.                                                      *)
(***************************************************************************)
CONFLICT_THRESHOLD == 5000
SYNC_INTERVAL_MS == 10000
CHUNK_SIZE == 1
baseServerPort == 3001
healthCheckInterval == 5000
UNRESPONSIVE_MS == 30000
NEW_FILE_AGE_MS == 5000

(***************************************************************************)
(* Input domains.                                                          *)
(***************************************************************************)
NoName == <<"", "">>
Names == {<<"note", ".txt">>}
OtherNames == {<<"doc", "">>}
AllNames == Names \cup OtherNames
Clients == {"alice", "bob"}
Contents == {<<1>>, <<1, 2>>}
LastMods == {1000, 3000, 9000}
RecentLastMods == {1000}
Methods == {"keep_winner", "keep_loser"}
FileIds == 1..MaxIds
WindowFileIds == 1..MaxWindowIds

Abs(x) == IF x < 0 THEN -x ELSE x

Put(f, k, v) == [x \in (DOMAIN f) \cup {k} |-> IF x = k THEN v ELSE f[x]]

Remove(f, ks) == [x \in (DOMAIN f) \ ks |-> f[x]]

(***************************************************************************)
(* md5 of a buffer: a fingerprint, here an injective code of the symbol    *)
(* sequence (no collisions among the contents of the model).               *)
(***************************************************************************)
RECURSIVE calculateChecksum(_)
calculateChecksum(buffer) ==
    IF buffer = <<>> THEN 0
    ELSE 3 * calculateChecksum(SubSeq(buffer, 1, Len(buffer) - 1)) + buffer[Len(buffer)]

(***************************************************************************)
(* `${fileName.replace(/(\.[^\.]+)?$/, '')}_conflicted_by_${clientId}` +   *)
(* path.extname(fileName)                                                  *)
(***************************************************************************)
ConflictFileName(fileName, clientId) ==
    <<fileName[1] \o "_conflicted_by_" \o clientId, fileName[2]>>

(***************************************************************************)
(* Metadata store.  readdir order is the order of the file ids.            *)
(***************************************************************************)
getAllVersions(md, fileName) == {md[f] : f \in {g \in DOMAIN md : md[g].fileName = fileName}}

HasVersions(md, fileName) == getAllVersions(md, fileName) # {}

\* reduce((latest, current) => current.version > latest.version ? current : latest):
\* the first record in directory order among those of highest version
getLatestVersion(md, fileName) ==
    CHOOSE r \in getAllVersions(md, fileName) :
        \A o \in getAllVersions(md, fileName) :
            \/ r.version > o.version
            \/ (r.version = o.version /\ r.fileId <= o.fileId)

\* a reduce that keeps the lower version: the oldest record instead of the latest
LatestByReduce_Oldest(md, fileName) ==
    CHOOSE r \in getAllVersions(md, fileName) :
        \A o \in getAllVersions(md, fileName) :
            \/ r.version < o.version
            \/ (r.version = o.version /\ r.fileId >= o.fileId)

\* allVersions.reduce((a, b) => (a.version > b.version ? a : b)) over the list
\* sorted by version descending: the last record among those of highest version
LatestByReduce(md, fileName) ==
    CHOOSE r \in getAllVersions(md, fileName) :
        \A o \in getAllVersions(md, fileName) :
            \/ r.version > o.version
            \/ (r.version = o.version /\ r.fileId >= o.fileId)

getNextVersion(md, fileName) ==
    IF HasVersions(md, fileName) THEN getLatestVersion(md, fileName).version + 1 ELSE 1

detectConflict_AnyChecksum(md, incoming) ==
    /\ HasVersions(md, incoming.fileName)
    /\ LET latest == getLatestVersion(md, incoming.fileName)
       IN  /\ Abs(incoming.lastModified - latest.lastModified) < CONFLICT_THRESHOLD
           /\ incoming.clientId # latest.clientId

detectConflict(md, incoming) ==
    /\ HasVersions(md, incoming.fileName)
    /\ LET latest == getLatestVersion(md, incoming.fileName)
       IN  /\ Abs(incoming.lastModified - latest.lastModified) < CONFLICT_THRESHOLD
           /\ incoming.clientId # latest.clientId
           /\ incoming.checksum # latest.checksum

\* a conflict id is crypto.randomBytes(8): an id no stored conflict has
NewConflictId(cf) == Cardinality(DOMAIN cf) + 1

saveConflict(cf, conflict) ==
    IF conflict.id \in DOMAIN cf THEN cf ELSE Put(cf, conflict.id, conflict)

\* a conflict document that was never resolved has no resolution and no
\* resolvedAt
NoResolution == [method |-> "", resolvedBy |-> ""]

NotResolvedAt == 0 - 1

\* resolveConflict(conflictId, resolution) at time t; throws 'Conflict not
\* found' when no document has the id
resolveConflict(cf, conflictId, resolution, t) ==
    IF conflictId \notin DOMAIN cf
    THEN [cf |-> cf, threw |-> TRUE]
    ELSE [cf |-> [cf EXCEPT ![conflictId] =
                     [@ EXCEPT !.status = "resolved", !.resolution = resolution,
                               !.resolvedAt = t]],
          threw |-> FALSE]

NoMeta ==
    [fileId |-> 0, fileName |-> NoName, version |-> 0, size |-> 0, checksum |-> 0,
     clientId |-> "", lastModified |-> 0, conflict |-> FALSE,
     conflictedWith |-> NoName, restoredFrom |-> 0]

Meta(fileId, fileName, version, buffer, clientId, lastModified) ==
    [NoMeta EXCEPT !.fileId = fileId, !.fileName = fileName, !.version = version,
                   !.size = Len(buffer), !.checksum = calculateChecksum(buffer),
                   !.clientId = clientId, !.lastModified = lastModified]

\* the conflict document detectConflict returns (existing / incoming); the
\* documents of the upload window carry winner / losers instead
FallbackConflict(md, cf, incoming) ==
    [id |-> NewConflictId(cf),
     fileName |-> incoming.fileName,
     conflictType |-> "concurrent_modification",
     existing |-> getLatestVersion(md, incoming.fileName),
     incoming |-> incoming,
     winner |-> NoMeta,
     losers |-> <<>>,
     allClients |-> <<>>,
     status |-> "unresolved",
     resolution |-> NoResolution,
     resolvedAt |-> NotResolvedAt]

\* A store is the record of the four directories; saveMetadata returns the
\* store after the call and whether it threw 'Conflict detected'.
saveMetadata(st, m) ==
    IF detectConflict(st.metadata, m)
    THEN [st |-> [st EXCEPT !.conflicts =
                      saveConflict(st.conflicts, FallbackConflict(st.metadata, st.conflicts, m))],
          threw |-> TRUE]
    ELSE [st |-> [st EXCEPT !.metadata = Put(st.metadata, m.fileId, m)],
          threw |-> FALSE]

(***************************************************************************)
(* Content store.                                                          *)
(***************************************************************************)
saveFile(st, fileName, buffer, version) ==
    [st EXCEPT !.files = Put(st.files, fileName, buffer),
               !.versions = Put(st.versions, <<fileName, version>>, buffer)]

\* deleteFile with deleteAllVersions set: the version blobs go as well
deleteFile_AllVersions(st, fileName) ==
    [st EXCEPT !.files = Remove(st.files, {fileName}),
               !.versions = Remove(st.versions, {k \in DOMAIN st.versions : k[1] = fileName})]

\* deleteFile(fileName) as the DELETE route calls it: version = null,
\* deleteAllVersions = false
deleteFile(st, fileName) ==
    [st EXCEPT !.files = Remove(st.files, {fileName})]

listVersions(vs, fileName) == {k \in DOMAIN vs : k[1] = fileName}

\* getFile(fileName, version = null): a version of 0 (or none) reads the
\* current blob; a missing blob makes the call throw
getFile(st, fileName, version) ==
    IF version # 0
    THEN IF <<fileName, version>> \in DOMAIN st.versions
         THEN [threw |-> FALSE, buffer |-> st.versions[<<fileName, version>>]]
         ELSE [threw |-> TRUE, buffer |-> <<>>]
    ELSE IF fileName \in DOMAIN st.files
         THEN [threw |-> FALSE, buffer |-> st.files[fileName]]
         ELSE [threw |-> TRUE, buffer |-> <<>>]

\* listFiles(): readdir of the directory of current blobs
listFiles(st) == DOMAIN st.files

renameFile(st, oldName, newName) ==
    LET moved == listVersions(st.versions, oldName)
        kept == Remove(st.versions, moved)
        fs1 == IF oldName \in DOMAIN st.files
               THEN Put(Remove(st.files, {oldName}), newName, st.files[oldName])
               ELSE st.files
    IN  [st EXCEPT
            !.files = fs1,
            !.versions = [k \in (DOMAIN kept) \cup {<<newName, j[2]>> : j \in moved} |->
                            IF <<oldName, k[2]>> \in moved /\ k[1] = newName
                            THEN st.versions[<<oldName, k[2]>>]
                            ELSE kept[k]]]

renameFileMetadata(md, oldName, newName) ==
    [f \in DOMAIN md |->
        IF md[f].fileName = oldName THEN [md[f] EXCEPT !.fileName = newName] ELSE md[f]]

Store == [files |-> files, versions |-> versions, metadata |-> metadata, conflicts |-> conflicts]

(***************************************************************************)
(* The upload window of POST /files/upload-safe.                           *)
(***************************************************************************)
SelectSeq2(s, Test(_, _)) ==
    LET RECURSIVE go(_, _)
        go(i, acc) == IF i > Len(s) THEN acc
                      ELSE go(i + 1, IF Test(s[i], i) THEN Append(acc, s[i]) ELSE acc)
    IN  go(1, <<>>)

\* recentUploads.set(key, arr.filter(entry => now - entry.timestamp <= SYNC_INTERVAL_MS));
\* if (recentUploads.get(key).length === 0) recentUploads.delete(key);
\* The window without its clean-up: every entry is kept whatever its age.
CleanWindow_KeepAll(w, t) == w

CleanWindow(w, t) ==
    LET fresh(k) == SelectSeq(w[k], LAMBDA e : t - e.timestamp <= SYNC_INTERVAL_MS)
    IN  [k \in {j \in DOMAIN w : fresh(j) # <<>>} |-> fresh(k)]

\* arr.filter((entry, idx, self) => idx === self.findIndex(e =>
\*     e.clientId === entry.clientId && e.checksum === entry.checksum))
UniqueCandidates(arr) ==
    SelectSeq2(arr, LAMBDA e, i :
        \A j \in 1..(i - 1) : ~(arr[j].clientId = e.clientId /\ arr[j].checksum = e.checksum))

\* allCandidates.sort((a, b) => a.lastModified - b.lastModified): a stable sort
RECURSIVE InsertByLastModified(_, _)
InsertByLastModified(sorted, e) ==
    IF sorted = <<>> THEN <<e>>
    ELSE IF sorted[Len(sorted)].lastModified <= e.lastModified THEN Append(sorted, e)
    ELSE Append(InsertByLastModified(SubSeq(sorted, 1, Len(sorted) - 1), e), sorted[Len(sorted)])

RECURSIVE SortByLastModified(_)
SortByLastModified(s) ==
    IF s = <<>> THEN <<>>
    ELSE InsertByLastModified(SortByLastModified(SubSeq(s, 1, Len(s) - 1)), s[Len(s)])

\* for (const loser of losers) { ... saveFile ... saveMetadata ... }
RECURSIVE SaveLosers(_, _, _, _)
SaveLosers(st, losers, fileName, acc) ==
    IF losers = <<>> THEN [st |-> st, threw |-> FALSE, loserMetas |-> acc]
    ELSE LET loser == Head(losers)
             conflictFileName == ConflictFileName(fileName, loser.clientId)
             conflictVersion == getNextVersion(st.metadata, conflictFileName)
             st1 == saveFile(st, conflictFileName, loser.buffer, conflictVersion)
             loserMeta == [Meta(loser.fileId, conflictFileName, conflictVersion, loser.buffer,
                                loser.clientId, loser.lastModified)
                              EXCEPT !.conflict = TRUE, !.conflictedWith = fileName]
             r == saveMetadata(st1, loserMeta)
         IN  IF r.threw THEN [st |-> r.st, threw |-> TRUE, loserMetas |-> acc]
             ELSE SaveLosers(r.st, Tail(losers), fileName, Append(acc, loserMeta))

(***************************************************************************)
(* The last request and its answer.  windowConflict, fallback and          *)
(* candidates record which path of the handler produced the answer.  An    *)
(* answer that reports no file (an error, a rename) is recorded without    *)
(* the request's fields.                                                   *)
(***************************************************************************)
NoResp ==
    [op |-> "none", fileName |-> NoName, clientId |-> "", buffer |-> <<>>,
     status |-> 0, message |-> "", version |-> 0, metadata |-> NoMeta,
     conflictId |-> "", conflictFileName |-> NoName, duplicate |-> FALSE,
     windowConflict |-> FALSE, fallback |-> FALSE, candidates |-> <<>>,
     body |-> <<>>]

Request(op, fileName, clientId, buffer) ==
    [NoResp EXCEPT !.op = op, !.fileName = fileName, !.clientId = clientId, !.buffer = buffer]

\* ids that name a stored document, a window entry or a chunked upload
UsedIds ==
    (DOMAIN metadata) \cup (DOMAIN sessions) \cup {k[1] : k \in DOMAIN chunks}
        \cup UNION {{recentUploads[n][i].fileId : i \in 1..Len(recentUploads[n])} :
                        n \in DOMAIN recentUploads}

\* crypto.randomBytes(8).toString('hex'): an id nothing else carries.  Ids
\* are handed out of a pool in increasing order, which is also the directory
\* order; 0 stands for 'the pool is used up' and no handler stores it.
NewFileId(pool) ==
    IF pool \subseteq UsedIds THEN {0}
    ELSE {i \in pool \ UsedIds : \A j \in pool \ UsedIds : i <= j}

Commit(st) ==
    /\ files' = st.files
    /\ versions' = st.versions
    /\ metadata' = st.metadata
    /\ conflicts' = st.conflicts
    /\ Cardinality(DOMAIN st.conflicts) <= MaxConflicts

(***************************************************************************)
(* POST /files/upload-safe                                                 *)
(***************************************************************************)
WindowEntry(clientId, lastModified, buffer, fileId) ==
    [clientId |-> clientId, lastModified |-> lastModified,
     checksum |-> calculateChecksum(buffer), buffer |-> buffer,
     fileId |-> fileId, timestamp |-> now]

\* the multi-client branch: allCandidates.length > 1
WindowConflict(req, arr, allCandidates) ==
    LET fileName == req.fileName
        sorted == SortByLastModified(allCandidates)
        winner == sorted[1]
        losers == Tail(sorted)
        winnerChecksum == calculateChecksum(winner.buffer)
        reuse == /\ HasVersions(metadata, fileName)
                 /\ LatestByReduce(metadata, fileName).checksum = winnerChecksum
        nextVersion == getNextVersion(metadata, fileName)
        newMeta == Meta(winner.fileId, fileName, nextVersion, winner.buffer,
                        winner.clientId, winner.lastModified)
        w == IF reuse THEN [st |-> Store, threw |-> FALSE]
             ELSE saveMetadata(saveFile(Store, fileName, winner.buffer, nextVersion), newMeta)
        winnerMeta == IF reuse THEN LatestByReduce(metadata, fileName) ELSE newMeta
        l == SaveLosers(w.st, losers, fileName, <<>>)
        conflictEntry ==
            [id |-> NewConflictId(l.st.conflicts),
             fileName |-> fileName,
             conflictType |-> "multi_client_concurrent_modification",
             existing |-> NoMeta,
             incoming |-> NoMeta,
             winner |-> winnerMeta,
             losers |-> l.loserMetas,
             allClients |-> <<winnerMeta.clientId>> \o
                            [i \in 1..Len(l.loserMetas) |-> l.loserMetas[i].clientId],
             status |-> "unresolved",
             resolution |-> NoResolution,
             resolvedAt |-> NotResolvedAt]
        mine == SelectSeq(l.loserMetas, LAMBDA m : m.clientId = req.clientId)
        seen == [req EXCEPT !.windowConflict = TRUE, !.candidates = sorted]
    IN  IF w.threw
        THEN /\ Commit(w.st)
             /\ resp' = [seen EXCEPT !.status = 500, !.message = "Conflict detected",
                                     !.fallback = TRUE]
        ELSE IF l.threw
        THEN /\ Commit(l.st)
             /\ resp' = [seen EXCEPT !.status = 500, !.message = "Conflict detected",
                                     !.fallback = TRUE]
        ELSE /\ Commit([l.st EXCEPT !.conflicts = saveConflict(l.st.conflicts, conflictEntry)])
             /\ resp' = IF req.clientId = winnerMeta.clientId
                        THEN [seen EXCEPT !.status = 200,
                                          !.message = "File uploaded successfully as the earliest client",
                                          !.version = winnerMeta.version,
                                          !.metadata = winnerMeta,
                                          !.conflictId = ToString(conflictEntry.id)]
                        ELSE [seen EXCEPT !.status = 409,
                                          !.message = "Conflict detected",
                                          !.conflictFileName =
                                              IF mine # <<>> THEN mine[1].fileName ELSE NoName,
                                          !.conflictId = ToString(conflictEntry.id)]

\* NO CONFLICT: save as normal
NormalSave(req, fileId, lastModified) ==
    LET nextVersion == getNextVersion(metadata, req.fileName)
        m == Meta(fileId, req.fileName, nextVersion, req.buffer, req.clientId, lastModified)
        r == saveMetadata(saveFile(Store, req.fileName, req.buffer, nextVersion), m)
    IN  /\ Commit(r.st)
        /\ resp' = IF r.threw
                   THEN [req EXCEPT !.status = 500, !.message = "Conflict detected",
                                    !.fallback = TRUE]
                   ELSE [req EXCEPT !.status = 200, !.message = "File uploaded successfully",
                                    !.version = nextVersion, !.metadata = m]

UploadSafe(fileName, clientId, fileBuffer, lastModified, fileId) ==
    LET req == Request("upload-safe", fileName, clientId, fileBuffer)
        checksum == calculateChecksum(fileBuffer)
    IN  IF /\ HasVersions(metadata, fileName)
           /\ LatestByReduce(metadata, fileName).checksum = checksum
        THEN /\ resp' = [req EXCEPT !.status = 200,
                                    !.message = "File already up-to-date, no new version created",
                                    !.version = LatestByReduce(metadata, fileName).version,
                                    !.metadata = LatestByReduce(metadata, fileName)]
             /\ UNCHANGED <<files, versions, metadata, conflicts, chunks, recentUploads,
                            now, sessions>>
        ELSE LET cleaned == CleanWindow(recentUploads, now)
                 arr == (IF fileName \in DOMAIN cleaned THEN cleaned[fileName] ELSE <<>>)
                        \o <<WindowEntry(clientId, lastModified, fileBuffer, fileId)>>
                 allCandidates == UniqueCandidates(arr)
             IN  /\ fileId # 0
                 /\ recentUploads' = Put(cleaned, fileName, arr)
                 /\ IF Len(allCandidates) > 1
                    THEN WindowConflict(req, arr, allCandidates)
                    ELSE NormalSave(req, fileId, lastModified)
                 /\ UNCHANGED <<chunks, now, sessions>>

(***************************************************************************)
(* POST /files/chunk.  A chunked upload is a session of one client: the    *)
(* client names the upload by a fresh fileId and posts its parts, which    *)
(* may arrive in any order and more than once, until the server assembles. *)
(***************************************************************************)
totalChunks(buffer) == (Len(buffer) + CHUNK_SIZE - 1) \div CHUNK_SIZE

\* fileBuffer.slice((chunkNumber - 1) * CHUNK_SIZE, min(start + CHUNK_SIZE, totalSize))
ChunkOf(buffer, chunkNumber) ==
    SubSeq(buffer, (chunkNumber - 1) * CHUNK_SIZE + 1,
           IF chunkNumber * CHUNK_SIZE < Len(buffer) THEN chunkNumber * CHUNK_SIZE ELSE Len(buffer))

\* the parts concatenated from the last to the first
RECURSIVE Assemble_Reversed(_, _, _)
Assemble_Reversed(ch, fileId, n) ==
    IF n = 0 THEN <<>> ELSE ch[<<fileId, n>>] \o Assemble_Reversed(ch, fileId, n - 1)

\* Buffer.concat of the parts 1..total, in numeric order
RECURSIVE Assemble(_, _, _)
Assemble(ch, fileId, n) ==
    IF n = 0 THEN <<>> ELSE Assemble(ch, fileId, n - 1) \o ch[<<fileId, n>>]

\* for (let i = 1; i <= Number(totalChunks); i++) await fs.remove(`${fileId}_${i}`)
CleanChunks(ch, fileId, total) == Remove(ch, {<<fileId, i>> : i \in 1..total})

Chunk(fileId, chunkNumber, total, fileName, clientId, lastModified, part) ==
    LET req == Request("chunk", fileName, clientId, <<>>)
        ch1 == Put(chunks, <<fileId, chunkNumber>>, part)
        chunksForFile == {k \in DOMAIN ch1 : k[1] = fileId}
    IN  IF Cardinality(chunksForFile) # total
        THEN /\ chunks' = ch1
             /\ resp' = [req EXCEPT !.status = 200, !.message = "Chunk received"]
             /\ UNCHANGED <<files, versions, metadata, conflicts>>
        ELSE IF \E i \in 1..total : <<fileId, i>> \notin DOMAIN ch1 \/ ch1[<<fileId, i>>] = <<>>
        THEN /\ chunks' = ch1
             /\ resp' = [req EXCEPT !.status = 500, !.message = "Missing or corrupt chunk"]
             /\ UNCHANGED <<files, versions, metadata, conflicts>>
        ELSE
            LET completeBuffer == Assemble(ch1, fileId, total)
                done == [req EXCEPT !.buffer = completeBuffer]
                checksum == calculateChecksum(completeBuffer)
                allVersions == getAllVersions(metadata, fileName)
                sameId == {v \in allVersions : v.fileId = fileId /\ v.checksum = checksum}
                nextVersion == getNextVersion(metadata, fileName)
                m == Meta(fileId, fileName, nextVersion, completeBuffer, clientId, lastModified)
                r == saveMetadata(saveFile(Store, fileName, completeBuffer, nextVersion), m)
            IN  IF allVersions # {} /\ LatestByReduce(metadata, fileName).checksum = checksum
                THEN /\ chunks' = CleanChunks(ch1, fileId, total)
                     /\ resp' = [done EXCEPT !.status = 200,
                                     !.message = "File already up-to-date, no new version created",
                                     !.version = LatestByReduce(metadata, fileName).version,
                                     !.duplicate = TRUE]
                     /\ UNCHANGED <<files, versions, metadata, conflicts>>
                ELSE IF sameId # {}
                THEN /\ chunks' = CleanChunks(ch1, fileId, total)
                     /\ resp' = [done EXCEPT !.status = 200,
                                     !.message = "File already processed with this fileId",
                                     !.version = (CHOOSE v \in sameId : TRUE).version,
                                     !.duplicate = TRUE]
                     /\ UNCHANGED <<files, versions, metadata, conflicts>>
                ELSE /\ Commit(r.st)
                     /\ chunks' = IF r.threw THEN ch1 ELSE CleanChunks(ch1, fileId, total)
                     /\ resp' = IF r.threw
                                THEN [done EXCEPT !.status = 409, !.message = "Conflict detected",
                                                  !.fallback = TRUE]
                                ELSE [done EXCEPT !.status = 200,
                                                  !.message = "File assembled successfully",
                                                  !.version = nextVersion]

Session(fileName, clientId, lastModified, buffer) ==
    [fileName |-> fileName, clientId |-> clientId, lastModified |-> lastModified,
     buffer |-> buffer]

\* uploadChunkedFile: one part of a chunked upload reaches the server
SendChunk(fileId, s, chunkNumber) ==
    /\ Chunk(fileId, chunkNumber, totalChunks(s.buffer), s.fileName, s.clientId,
             s.lastModified, ChunkOf(s.buffer, chunkNumber))
    /\ sessions' = IF resp'.message = "Chunk received"
                   THEN Put(sessions, fileId, s)
                   ELSE Remove(sessions, {fileId})
    /\ UNCHANGED <<recentUploads, now>>

StartChunked(fileName, clientId, lastModified, buffer, chunkNumber, fileId) ==
    /\ Cardinality(DOMAIN sessions) < MaxSessions
    /\ chunkNumber \in 1..totalChunks(buffer)
    /\ fileId # 0
    /\ SendChunk(fileId, Session(fileName, clientId, lastModified, buffer), chunkNumber)

ContinueChunked(fileId, chunkNumber) ==
    /\ fileId \in DOMAIN sessions
    /\ chunkNumber \in 1..totalChunks(sessions[fileId].buffer)
    /\ SendChunk(fileId, sessions[fileId], chunkNumber)

(***************************************************************************)
(* POST /files/:fileName/restore/:version                                  *)
(***************************************************************************)
Restore(fileName, version, clientId, fileId) ==
    LET req == Request("restore", fileName, clientId, <<>>)
    IN  IF <<fileName, version>> \notin DOMAIN versions
        THEN /\ resp' = [Request("restore", NoName, "", <<>>) EXCEPT
                                !.status = 500, !.message = "Version not found"]
             /\ UNCHANGED <<files, versions, metadata, conflicts, chunks, recentUploads,
                            now, sessions>>
        ELSE    LET fileBuffer == versions[<<fileName, version>>]
                    nextVersion == getNextVersion(metadata, fileName)
                    m == [Meta(fileId, fileName, nextVersion, fileBuffer, clientId, now)
                             EXCEPT !.restoredFrom = version]
                    r == saveMetadata(saveFile(Store, fileName, fileBuffer, nextVersion), m)
                IN  /\ fileId # 0
                    /\ Commit(r.st)
                    /\ resp' = IF r.threw
                               THEN [req EXCEPT !.buffer = fileBuffer, !.status = 500,
                                                !.message = "Conflict detected",
                                                !.fallback = TRUE]
                               ELSE [req EXCEPT !.buffer = fileBuffer, !.status = 200,
                                                !.message = "Version restored",
                                                !.version = nextVersion, !.metadata = m]
                    /\ UNCHANGED <<chunks, recentUploads, now, sessions>>

(***************************************************************************)
(* DELETE /files/:fileName                                                 *)
(***************************************************************************)
Delete(fileName) ==
    LET req == Request("delete", fileName, "", <<>>)
    IN  /\ files' = deleteFile(Store, fileName).files
        /\ versions' = deleteFile(Store, fileName).versions
        /\ resp' = IF fileName \in DOMAIN files
                   THEN [req EXCEPT !.status = 200, !.message = "File deleted successfully"]
                   ELSE [Request("delete", NoName, "", <<>>) EXCEPT
                                !.status = 404, !.message = "File not found"]
        /\ UNCHANGED <<metadata, conflicts, chunks, recentUploads, now, sessions>>

(***************************************************************************)
(* POST /files/:oldName/rename                                             *)
(***************************************************************************)
Rename(oldName, newName) ==
    LET req == Request("rename", NoName, "", <<>>)
        st == renameFile(Store, oldName, newName)
    IN  /\ oldName # newName
        /\ files' = st.files
        /\ versions' = st.versions
        /\ metadata' = renameFileMetadata(metadata, oldName, newName)
        /\ resp' = [req EXCEPT !.status = 200, !.message = "File renamed"]
        /\ UNCHANGED <<conflicts, chunks, recentUploads, now, sessions>>

(***************************************************************************)
(* GET /files/:fileName/download: a throw of getFile reaches the catch of  *)
(* the handler, which answers 500.                                         *)
(***************************************************************************)
Download(fileName) ==
    LET req == Request("download", fileName, "", <<>>)
        r == getFile(Store, fileName, 0)
    IN  /\ resp' = IF r.threw
                   THEN [req EXCEPT !.status = 500, !.message = "File not found"]
                   ELSE [req EXCEPT !.status = 200, !.body = r.buffer]
        /\ UNCHANGED <<files, versions, metadata, conflicts, chunks, recentUploads,
                       now, sessions>>

(***************************************************************************)
(* GET /files/:fileName/versions/:version/download: the catch answers 404. *)
(***************************************************************************)
DownloadVersion(fileName, version) ==
    LET req == [Request("download-version", fileName, "", <<>>) EXCEPT !.version = version]
        r == getFile(Store, fileName, version)
    IN  /\ resp' = IF r.threw
                   THEN [req EXCEPT !.status = 404, !.message = "File not found"]
                   ELSE [req EXCEPT !.status = 200, !.body = r.buffer]
        /\ UNCHANGED <<files, versions, metadata, conflicts, chunks, recentUploads,
                       now, sessions>>

(***************************************************************************)
(* POST /conflicts/:conflictId/resolve                                     *)
(***************************************************************************)
Resolve(conflictId, method, clientId) ==
    LET req == Request("resolve", NoName, "", <<>>)
        r == resolveConflict(conflicts, conflictId,
                             [method |-> method, resolvedBy |-> clientId], now)
    IN  /\ IF method = ""
           THEN /\ resp' = [req EXCEPT !.status = 400, !.message = "Resolution method required"]
                /\ UNCHANGED conflicts
           ELSE /\ conflicts' = r.cf
                /\ resp' = IF r.threw
                           THEN [req EXCEPT !.status = 500, !.message = "Conflict not found"]
                           ELSE [req EXCEPT !.status = 200,
                                            !.message = "Conflict resolved successfully",
                                            !.conflictId = ToString(conflictId)]
        /\ UNCHANGED <<files, versions, metadata, chunks, recentUploads, now, sessions>>

(***************************************************************************)
(* The passage of time between requests.                                   *)
(***************************************************************************)
Tick ==
    /\ now < MaxTicks * ClockStep
    /\ now' = now + ClockStep
    /\ UNCHANGED <<files, versions, metadata, conflicts, chunks, recentUploads, sessions, resp>>

\* an API server on empty storage directories
InitServer ==
    /\ files = <<>>
    /\ versions = <<>>
    /\ metadata = <<>>
    /\ conflicts = <<>>
    /\ chunks = <<>>
    /\ recentUploads = <<>>
    /\ now = 0
    /\ sessions = <<>>
    /\ resp = NoResp

\* no call of saveConflict is in progress
NoSavers ==
    /\ conflictFiles = <<>>
    /\ savers = <<>>

\* no supervisor runs: the API server was started on its own
NoLoadBalancer ==
    /\ servers = <<>>
    /\ processes = <<>>
    /\ timers = 0
    /\ waiting = {}
    /\ currentPort = 0
    /\ initialLeft = 0
    /\ initWait = 0
    /\ crashes = 0
    /\ hangs = 0
    /\ minInstances = 0
    /\ maxInstances = 0

NoProxy ==
    /\ roundRobinIndex = 0
    /\ requests = <<>>

NoInfo == [fileName |-> NoName, content |-> <<>>]

NoClient ==
    /\ local = <<>>
    /\ events = {}
    /\ pendingUploads = {}
    /\ pendingDeletions = {}
    /\ recentlyDeleted = {}
    /\ fileSyncStatus = <<>>
    /\ calls = <<>>
    /\ online = TRUE
    /\ syncs = 0
    /\ lastConflictLocalInfo = NoInfo
    /\ edits = 0
    /\ unsent = {}

\* the components that take no part in a run
NoHandlers ==
    /\ handling = <<>>
    /\ peerUploads = <<>>

NoDisk ==
    /\ writers = <<>>
    /\ reads = <<>>
    /\ complete = <<>>

NoShutdown ==
    /\ shutdownPhase = "running"

NoReconciler ==
    /\ syncIntervalId = FALSE
    /\ isPaused = FALSE
    /\ syncRuns = <<>>

NoWatcher ==
    /\ ignoredFiles = {}
    /\ debounceTimers = {}
    /\ downloading = <<>>
    /\ unignoreTimers = <<>>

NoOthers == NoProxy /\ NoClient /\ NoHandlers /\ NoDisk /\ NoShutdown /\ NoReconciler /\ NoWatcher

Init == InitServer /\ NoSavers /\ NoLoadBalancer /\ NoOthers

Next ==
    \/ /\ \E fileName \in Names, clientId \in Clients, fileBuffer \in Contents,
             lastModified \in LastMods, fileId \in NewFileId(FileIds) :
             UploadSafe(fileName, clientId, fileBuffer, lastModified, fileId)
       /\ UNCHANGED notServerVars
    \/ /\ \E fileName \in Names, clientId \in Clients, fileBuffer \in Contents,
             lastModified \in LastMods, chunkNumber \in 1..MaxChunks, fileId \in NewFileId(FileIds) :
             StartChunked(fileName, clientId, lastModified, fileBuffer, chunkNumber, fileId)
       /\ UNCHANGED notServerVars
    \/ /\ \E fileId \in FileIds, chunkNumber \in 1..MaxChunks : ContinueChunked(fileId, chunkNumber)
       /\ UNCHANGED notServerVars
    \/ /\ \E fileName \in AllNames, version \in 1..MaxIds, clientId \in Clients,
             fileId \in NewFileId(FileIds) :
             Restore(fileName, version, clientId, fileId)
       /\ UNCHANGED notServerVars
    \/ /\ \E fileName \in AllNames : Delete(fileName)
       /\ UNCHANGED notServerVars
    \/ /\ \E oldName \in AllNames, newName \in AllNames : Rename(oldName, newName)
       /\ UNCHANGED notServerVars
    \/ /\ Tick
       /\ UNCHANGED notServerVars

Spec == Init /\ [][Next]_vars

(***************************************************************************)
(* The safe-upload path alone, with a larger pool of ids: the upload       *)
(* window after three and more uploads.                                    *)
(***************************************************************************)
NextWindow ==
    \/ /\ \E fileName \in Names, clientId \in Clients, fileBuffer \in Contents,
             lastModified \in LastMods, fileId \in NewFileId(WindowFileIds) :
             UploadSafe(fileName, clientId, fileBuffer, lastModified, fileId)
       /\ UNCHANGED notServerVars
    \/ /\ Tick
       /\ UNCHANGED notServerVars

SpecWindow == Init /\ [][NextWindow]_vars

(***************************************************************************)
(* The routes that read and rewrite stored files: safe upload, restore,    *)
(* delete, rename and the two downloads.                                   *)
(***************************************************************************)
NextFiles ==
    \/ /\ \E fileName \in Names, clientId \in Clients, fileBuffer \in Contents,
             lastModified \in RecentLastMods, fileId \in NewFileId(FileIds) :
             UploadSafe(fileName, clientId, fileBuffer, lastModified, fileId)
       /\ UNCHANGED notServerVars
    \/ /\ \E fileName \in AllNames, version \in 1..MaxIds, clientId \in Clients,
             fileId \in NewFileId(FileIds) :
             Restore(fileName, version, clientId, fileId)
       /\ UNCHANGED notServerVars
    \/ /\ \E fileName \in AllNames : Delete(fileName)
       /\ UNCHANGED notServerVars
    \/ /\ \E oldName \in AllNames, newName \in AllNames : Rename(oldName, newName)
       /\ UNCHANGED notServerVars
    \/ /\ \E fileName \in AllNames : Download(fileName)
       /\ UNCHANGED notServerVars
    \/ /\ \E fileName \in AllNames, version \in 0..MaxIds : DownloadVersion(fileName, version)
       /\ UNCHANGED notServerVars
    \/ /\ Tick
       /\ UNCHANGED notServerVars

SpecFiles == Init /\ [][NextFiles]_vars

(***************************************************************************)
(* Safe uploads and restores of one name, with the larger pool of ids: a   *)
(* restore after two and more versions.                                    *)
(***************************************************************************)
NextRestore ==
    \/ /\ \E fileName \in Names, clientId \in Clients, fileBuffer \in Contents,
             lastModified \in LastMods, fileId \in NewFileId(WindowFileIds) :
             UploadSafe(fileName, clientId, fileBuffer, lastModified, fileId)
       /\ UNCHANGED notServerVars
    \/ /\ \E fileName \in Names, version \in 1..MaxWindowIds, clientId \in Clients,
             fileId \in NewFileId(WindowFileIds) :
             Restore(fileName, version, clientId, fileId)
       /\ UNCHANGED notServerVars
    \/ /\ Tick
       /\ UNCHANGED notServerVars

SpecRestore == Init /\ [][NextRestore]_vars

(***************************************************************************)
(* Chunked uploads alone: parts in any order, re-sent parts, one upload    *)
(* after another.                                                          *)
(***************************************************************************)
NextChunks ==
    \/ /\ \E fileName \in Names, clientId \in Clients, fileBuffer \in Contents,
             lastModified \in LastMods, chunkNumber \in 1..MaxChunks,
             fileId \in NewFileId(WindowFileIds) :
             StartChunked(fileName, clientId, lastModified, fileBuffer, chunkNumber, fileId)
       /\ UNCHANGED notServerVars
    \/ /\ \E fileId \in WindowFileIds, chunkNumber \in 1..MaxChunks :
             ContinueChunked(fileId, chunkNumber)
       /\ UNCHANGED notServerVars
    \/ /\ Tick
       /\ UNCHANGED notServerVars

SpecChunks == Init /\ [][NextChunks]_vars

(***************************************************************************)
(* Conflicts and their resolution: safe uploads that conflict, and         *)
(* resolve requests.                                                       *)
(***************************************************************************)
NextConflicts ==
    \/ /\ \E fileName \in Names, clientId \in Clients, fileBuffer \in Contents,
             lastModified \in RecentLastMods, fileId \in NewFileId(FileIds) :
             UploadSafe(fileName, clientId, fileBuffer, lastModified, fileId)
       /\ UNCHANGED notServerVars
    \/ /\ \E conflictId \in 1..(MaxConflicts + 1), method \in Methods \cup {""},
             clientId \in Clients :
             Resolve(conflictId, method, clientId)
       /\ UNCHANGED notServerVars
    \/ /\ Tick
       /\ UNCHANGED notServerVars

SpecConflicts == Init /\ [][NextConflicts]_vars

(***************************************************************************)
(* saveConflict called by two callers at once.  The call is                *)
(*     if (!(await fs.pathExists(conflictPath)))                           *)
(*         await fs.writeJson(conflictPath, conflict)                      *)
(* and writeJson is fs.writeFile: it opens the file with flag 'w', which   *)
(* creates or empties it, and then writes the text from position 0 of its  *)
(* own descriptor.  Each of the three steps is atomic; the callers'        *)
(* steps interleave.  A document is the text <<"{", id>> \o body \o        *)
(* <<"}">>.                                                                *)
(***************************************************************************)
Callers == {"first", "second"}

SavedId == "c1"

OtherId == "c0"

ThirdId == "c2"

Bodies == {<<"a">>, <<"b", "b">>, <<"c", "c", "c">>}

Document(id, body) == [id |-> id, body |-> body]

\* JSON.stringify of a conflict document
Serialize(doc) == <<"{", doc.id>> \o doc.body \o <<"}">>

\* the text parses as a conflict document: an opening brace, an id, a body
\* and one closing brace at the very end
Parses(text) ==
    /\ Len(text) >= 3
    /\ text[1] = "{"
    /\ text[Len(text)] = "}"
    /\ \A i \in 2..(Len(text) - 1) : text[i] \notin {"{", "}"}

\* fs.readJson of a text that parses
readJson(text) == Document(text[2], SubSeq(text, 3, Len(text) - 1))

\* a write of `text` at position 0 of a file that holds `old`
WriteAt0(old, text) ==
    IF Len(text) >= Len(old) THEN text ELSE text \o SubSeq(old, Len(text) + 1, Len(old))

\* await fs.pathExists(conflictPath)
SaverCheck(c) ==
    /\ savers[c].pc = "pathExists"
    /\ savers' = [savers EXCEPT ![c].pc =
                      IF savers[c].conflict.id \in DOMAIN conflictFiles THEN "done" ELSE "open"]
    /\ UNCHANGED conflictFiles

\* fs.open(conflictPath, 'w')
SaverOpen(c) ==
    /\ savers[c].pc = "open"
    /\ conflictFiles' = Put(conflictFiles, savers[c].conflict.id, <<>>)
    /\ savers' = [savers EXCEPT ![c].pc = "write"]

\* fs.write(fd, text) and close
SaverWrite(c) ==
    /\ savers[c].pc = "write"
    /\ conflictFiles' = Put(conflictFiles, savers[c].conflict.id,
                            WriteAt0(conflictFiles[savers[c].conflict.id],
                                     Serialize(savers[c].conflict)))
    /\ savers' = [savers EXCEPT ![c].pc = "done"]

\* the conflicts directory holds one document of another id; each caller is
\* about to save a document, the second one possibly later than the first
InitSavers ==
    /\ \E body \in Bodies :
          conflictFiles = Put(<<>>, OtherId, Serialize(Document(OtherId, body)))
    /\ \E b1 \in Bodies, b2 \in Bodies, id2 \in {SavedId, ThirdId} :
          savers = [c \in Callers |->
                      [pc |-> "pathExists",
                       conflict |-> IF c = "first" THEN Document(SavedId, b1)
                                    ELSE Document(id2, b2)]]

NextSavers ==
    \/ /\ \E c \in Callers : SaverCheck(c)
       /\ UNCHANGED notSaverVars
    \/ /\ \E c \in Callers : SaverOpen(c)
       /\ UNCHANGED notSaverVars
    \/ /\ \E c \in Callers : SaverWrite(c)
       /\ UNCHANGED notSaverVars

InitSaverRun == InitServer /\ InitSavers /\ NoLoadBalancer /\ NoOthers

SpecSavers == InitSaverRun /\ [][NextSavers]_vars

(***************************************************************************)
(* The supervisor (LoadBalancer).  A worker process is "starting" until it *)
(* listens, then "up"; it is "hung" when it has stopped answering /health  *)
(* and "killed" once SIGTERM was sent to it.  A process leaves `processes` *)
(* when its exit event is handled.  lastCheck is kept as the number of     *)
(* health checks a server has failed since it last answered.               *)
(***************************************************************************)
Configs == {<<1, 1>>, <<2, 2>>, <<2, 4>>}

\* every port the supervisor can hand out within the budgets of crashes and hangs
Ports == baseServerPort..(baseServerPort + 2 + 2 * MaxCrashes + 3 * MaxHangs)

getHealthyServers(sv) == {p \in DOMAIN sv : sv[p].healthy}

\* while (this.servers.has(this.currentPort)) this.currentPort++
getNextAvailablePort(sv, cp) ==
    CHOOSE p \in cp..(cp + Cardinality(DOMAIN sv)) :
        p \notin DOMAIN sv /\ \A q \in cp..(p - 1) : q \in DOMAIN sv

\* a crash handler that starts nothing
handleServerCrash_NoRespawn(sv, minI, maxI) == IF maxI < 0 THEN 1 ELSE 0

\* the number of startServerInstance timers handleServerCrash sets
handleServerCrash(sv, minI, maxI) ==
    LET healthyCount == Cardinality(getHealthyServers(sv))
        totalCount == Cardinality(DOMAIN sv)
    IN  (IF healthyCount < minI /\ totalCount < maxI THEN 1 ELSE 0)
        + (IF healthyCount = 0 /\ totalCount < maxI THEN 1 ELSE 0)

\* killServer(port): SIGTERM to the process of the entry, and the entry is
\* deleted at once (the later SIGKILL is sent only if the entry is still
\* there, so it is never sent)
killServer(sv, pr, port) ==
    [servers |-> Remove(sv, {port}),
     processes |-> IF port \in DOMAIN sv /\ port \in DOMAIN pr
                   THEN [pr EXCEPT ![port] = "killed"] ELSE pr]

startServerInstance ==
    LET port == getNextAvailablePort(servers, currentPort)
    IN  /\ currentPort' = port + 1
        /\ processes' = Put(processes, port, "starting")
        /\ servers' = Put(servers, port, [healthy |-> FALSE, misses |-> 0])
        /\ waiting' = waiting \cup {port}

\* one iteration of the loop of startInitialServers, which awaits each start
StartInitial ==
    /\ initialLeft > 0
    /\ initWait = 0
    /\ startServerInstance
    /\ initialLeft' = initialLeft - 1
    /\ initWait' = getNextAvailablePort(servers, currentPort)
    /\ UNCHANGED <<timers, crashes, hangs, minInstances, maxInstances>>

\* a setTimeout(() => this.startServerInstance(), ...) comes due
TimerFires ==
    /\ timers > 0
    /\ timers' = timers - 1
    /\ startServerInstance
    /\ UNCHANGED <<initialLeft, initWait, crashes, hangs, minInstances, maxInstances>>

\* a worker has started and answers /health
Boot(port) ==
    /\ port \in DOMAIN processes
    /\ processes[port] = "starting"
    /\ processes' = [processes EXCEPT ![port] = "up"]
    /\ UNCHANGED <<servers, timers, waiting, currentPort, initialLeft, initWait,
                   crashes, hangs, minInstances, maxInstances>>

\* waitForServerStart: GET /health answered
WaitOk(port) ==
    /\ port \in waiting
    /\ port \in DOMAIN processes
    /\ processes[port] = "up"
    /\ port \in DOMAIN servers
    /\ servers' = [servers EXCEPT ![port].healthy = TRUE]
    /\ waiting' = waiting \ {port}
    /\ initWait' = IF initWait = port THEN 0 ELSE initWait
    /\ UNCHANGED <<processes, timers, currentPort, initialLeft, crashes, hangs,
                   minInstances, maxInstances>>

\* waitForServerStart: no answer within the timeout, killServer(port)
WaitTimeout(port) ==
    /\ port \in waiting
    /\ IF port \in DOMAIN processes THEN processes[port] \in {"hung", "killed"} ELSE TRUE
    /\ servers' = killServer(servers, processes, port).servers
    /\ processes' = killServer(servers, processes, port).processes
    /\ waiting' = waiting \ {port}
    /\ initWait' = IF initWait = port THEN 0 ELSE initWait
    /\ UNCHANGED <<timers, currentPort, initialLeft, crashes, hangs,
                   minInstances, maxInstances>>

\* serverProcess.on('exit'): this.servers.delete(port); this.handleServerCrash(port)
OnExit(port) ==
    /\ processes' = Remove(processes, {port})
    /\ servers' = Remove(servers, {port})
    /\ timers' = timers + handleServerCrash(Remove(servers, {port}), minInstances, maxInstances)
    /\ UNCHANGED <<waiting, currentPort, initialLeft, initWait, minInstances, maxInstances>>

\* a worker process dies
Crash(port) ==
    /\ port \in DOMAIN processes
    /\ processes[port] # "killed"
    /\ crashes < MaxCrashes
    /\ crashes' = crashes + 1
    /\ OnExit(port)
    /\ UNCHANGED hangs

\* a process that was sent SIGTERM exits
Exit(port) ==
    /\ port \in DOMAIN processes
    /\ processes[port] = "killed"
    /\ OnExit(port)
    /\ UNCHANGED <<crashes, hangs>>

\* a worker stops answering /health without exiting
Hang(port) ==
    /\ port \in DOMAIN processes
    /\ processes[port] \in {"starting", "up"}
    /\ hangs < MaxHangs
    /\ hangs' = hangs + 1
    /\ processes' = [processes EXCEPT ![port] = "hung"]
    /\ UNCHANGED <<servers, timers, waiting, currentPort, initialLeft, initWait,
                   crashes, minInstances, maxInstances>>

\* GET /health of a worker is answered
Answers(pr, port) == port \in DOMAIN pr /\ pr[port] = "up"

\* the entries performHealthChecks restarts: no answer, and lastCheck more
\* than UNRESPONSIVE_MS ago.  A worker that takes longer than that to listen
\* is one that hangs (Hang), so a worker still "starting" is not among them.
Unresponsive(sv, pr) ==
    {port \in DOMAIN sv :
        /\ port \in DOMAIN pr /\ pr[port] \in {"hung", "killed"}
        /\ (sv[port].misses + 1) * healthCheckInterval > UNRESPONSIVE_MS}

\* performHealthChecks: one pass over this.servers
performHealthChecks ==
    LET stale == Unresponsive(servers, processes)
    IN  /\ DOMAIN servers # {}
        /\ servers' = [port \in DOMAIN servers \ stale |->
                          IF Answers(processes, port)
                          THEN [healthy |-> TRUE, misses |-> 0]
                          ELSE IF port \in DOMAIN processes /\ processes[port] = "starting"
                          THEN servers[port]
                          ELSE [healthy |-> FALSE, misses |-> servers[port].misses + 1]]
        /\ processes' = [port \in DOMAIN processes |->
                            IF port \in stale
                            THEN killServer(servers, processes, port).processes[port]
                            ELSE processes[port]]
        /\ timers' = timers + Cardinality(stale)
        /\ UNCHANGED <<waiting, currentPort, initialLeft, initWait, crashes, hangs,
                       minInstances, maxInstances>>

\* new LoadBalancer(options)
InitLoadBalancer ==
    /\ servers = <<>>
    /\ processes = <<>>
    /\ timers = 0
    /\ waiting = {}
    /\ currentPort = baseServerPort
    /\ initWait = 0
    /\ crashes = 0
    /\ hangs = 0
    /\ \E c \in Configs : minInstances = c[1] /\ maxInstances = c[2]
    /\ initialLeft = minInstances

NextLoadBalancer ==
    \/ StartInitial /\ UNCHANGED notSupervisorVars
    \/ TimerFires /\ UNCHANGED notSupervisorVars
    \/ \E port \in Ports : Boot(port) /\ UNCHANGED notSupervisorVars
    \/ \E port \in Ports : WaitOk(port) /\ UNCHANGED notSupervisorVars
    \/ \E port \in Ports : WaitTimeout(port) /\ UNCHANGED notSupervisorVars
    \/ \E port \in Ports : Crash(port) /\ UNCHANGED notSupervisorVars
    \/ \E port \in Ports : Exit(port) /\ UNCHANGED notSupervisorVars
    \/ \E port \in Ports : Hang(port) /\ UNCHANGED notSupervisorVars
    \/ performHealthChecks /\ UNCHANGED notSupervisorVars

InitSupervisor == InitServer /\ NoSavers /\ InitLoadBalancer /\ NoOthers

SpecLoadBalancer == InitSupervisor /\ [][NextLoadBalancer]_vars

\* What the supervisor's scheduling guarantees: the start-up loop runs on, a
\* timer that was set comes due, the health-check interval keeps running, a
\* spawned worker gets to listen unless it crashes or hangs, each wait for a
\* start ends, and a process that was sent SIGTERM exits.  Crashes and hangs
\* are never required to happen.
FairLoadBalancer ==
    /\ WF_vars(StartInitial /\ UNCHANGED notSupervisorVars)
    /\ WF_vars(TimerFires /\ UNCHANGED notSupervisorVars)
    /\ WF_vars(performHealthChecks /\ UNCHANGED notSupervisorVars)
    /\ \A port \in Ports :
          /\ WF_vars(Boot(port) /\ UNCHANGED notSupervisorVars)
          /\ WF_vars(WaitOk(port) /\ UNCHANGED notSupervisorVars)
          /\ WF_vars(WaitTimeout(port) /\ UNCHANGED notSupervisorVars)
          /\ WF_vars(Exit(port) /\ UNCHANGED notSupervisorVars)

SpecLoadBalancerFair == SpecLoadBalancer /\ FairLoadBalancer

(***************************************************************************)
(* The proxy of the supervisor (setupProxy).  A request is "sent" once it  *)
(* is dispatched to its first target, "retried" once the error callback    *)
(* has dispatched it a second time, "answered" when a worker's response    *)
(* went back to the client, "unavailable" when the proxy answered 503, and *)
(* "dropped" when its second dispatch failed: that call of proxy.web has   *)
(* no error callback and the proxy has no 'error' listener, so nothing     *)
(* writes a response.                                                      *)
(***************************************************************************)
\* Array.from(this.servers.entries()).filter(...).map(...): the healthy ports
\* in insertion order, which is the order of the port numbers
getHealthyList(sv) ==
    LET H == getHealthyServers(sv)
    IN  CHOOSE q \in [1..Cardinality(H) -> H] :
            \A i, j \in 1..Cardinality(H) : i < j => q[i] < q[j]

markServerUnhealthy(sv, port) ==
    IF port \in DOMAIN sv THEN [sv EXCEPT ![port].healthy = FALSE] ELSE sv

\* a dispatch that always takes the first healthy worker
ProxyRequest_FirstHealthy ==
    /\ Len(requests) < MaxRequests
    /\ LET healthyServers == getHealthyList(servers)
       IN  IF Len(healthyServers) = 0
           THEN requests' = Append(requests,
                       [healthy |-> {}, target |-> 0, retry |-> 0, stage |-> "unavailable"])
           ELSE requests' = Append(requests,
                       [healthy |-> getHealthyServers(servers),
                        target |-> healthyServers[1], retry |-> 0, stage |-> "sent"])
    /\ UNCHANGED <<roundRobinIndex, lbVars>>

\* http.createServer((req, res) => ...): a request arrives
ProxyRequest ==
    /\ Len(requests) < MaxRequests
    /\ LET healthyServers == getHealthyList(servers)
       IN  IF Len(healthyServers) = 0
           THEN /\ requests' = Append(requests,
                       [healthy |-> {}, target |-> 0, retry |-> 0, stage |-> "unavailable"])
                /\ UNCHANGED roundRobinIndex
           ELSE /\ requests' = Append(requests,
                       [healthy |-> getHealthyServers(servers),
                        target |-> healthyServers[(roundRobinIndex % Len(healthyServers)) + 1],
                        retry |-> 0, stage |-> "sent"])
                /\ roundRobinIndex' = roundRobinIndex + 1
    /\ UNCHANGED lbVars

\* the error callback of the first proxy.web: the transport to the target
\* failed, which can happen whatever the condition of the worker process
ProxyError(i) ==
    /\ i \in DOMAIN requests
    /\ requests[i].stage = "sent"
    /\ servers' = markServerUnhealthy(servers, requests[i].target)
    /\ LET retryServers == getHealthyList(markServerUnhealthy(servers, requests[i].target))
       IN  requests' = [requests EXCEPT ![i] =
               IF Len(retryServers) > 0
               THEN [@ EXCEPT !.retry = retryServers[1], !.stage = "retried"]
               ELSE [@ EXCEPT !.stage = "unavailable"]]
    /\ UNCHANGED <<roundRobinIndex, processes, timers, waiting, currentPort, initialLeft,
                   initWait, crashes, hangs, minInstances, maxInstances>>

\* the worker the request is at answers, and the proxy pipes the answer back
WorkerResponds(i) ==
    /\ i \in DOMAIN requests
    /\ requests[i].stage \in {"sent", "retried"}
    /\ Answers(processes, IF requests[i].stage = "sent" THEN requests[i].target
                                                       ELSE requests[i].retry)
    /\ requests' = [requests EXCEPT ![i].stage = "answered"]
    /\ UNCHANGED <<roundRobinIndex, lbVars>>

\* the second proxy.web fails
RetryFails(i) ==
    /\ i \in DOMAIN requests
    /\ requests[i].stage = "retried"
    /\ requests' = [requests EXCEPT ![i].stage = "dropped"]
    /\ UNCHANGED <<roundRobinIndex, lbVars>>

\* a status whose total leaves out the healthy workers
getStatus_UnhealthyTotal(sv) ==
    [totalServers |-> Cardinality(DOMAIN sv \ getHealthyServers(sv)),
     healthyServers |-> Cardinality(getHealthyServers(sv)),
     servers |-> getHealthyServers(sv)]

\* getStatus(): the counts it reports and the ports it counts as healthy
getStatus(sv) ==
    [totalServers |-> Cardinality(DOMAIN sv),
     healthyServers |-> Cardinality(getHealthyServers(sv)),
     servers |-> getHealthyServers(sv)]

InitProxyRun ==
    /\ InitServer /\ NoSavers /\ InitLoadBalancer
    /\ minInstances = 2 /\ maxInstances = 2
    /\ NoOthers

NextProxy ==
    \/ StartInitial /\ UNCHANGED notSupervisorVars
    \/ TimerFires /\ UNCHANGED notSupervisorVars
    \/ \E port \in Ports : Boot(port) /\ UNCHANGED notSupervisorVars
    \/ \E port \in Ports : WaitOk(port) /\ UNCHANGED notSupervisorVars
    \/ \E port \in Ports : WaitTimeout(port) /\ UNCHANGED notSupervisorVars
    \/ \E port \in Ports : Crash(port) /\ UNCHANGED notSupervisorVars
    \/ performHealthChecks /\ UNCHANGED notSupervisorVars
    \/ ProxyRequest /\ UNCHANGED <<serverVars, saverVars, clientVars, handlerVars, diskVars, shutdownVars, reconcilerVars, watcherVars>>
    \/ \E i \in 1..MaxRequests : ProxyError(i) /\ UNCHANGED <<serverVars, saverVars, clientVars, handlerVars, diskVars, shutdownVars, reconcilerVars, watcherVars>>
    \/ \E i \in 1..MaxRequests : WorkerResponds(i) /\ UNCHANGED <<serverVars, saverVars, clientVars, handlerVars, diskVars, shutdownVars, reconcilerVars, watcherVars>>
    \/ \E i \in 1..MaxRequests : RetryFails(i) /\ UNCHANGED <<serverVars, saverVars, clientVars, handlerVars, diskVars, shutdownVars, reconcilerVars, watcherVars>>

SpecProxy == InitProxyRun /\ [][NextProxy]_vars

\* The supervisor's scheduling as in FairLoadBalancer, and every proxy.web
\* ends: the worker's answer is piped back or the transport fails.
FairProxy ==
    /\ FairLoadBalancer
    /\ \A i \in 1..MaxRequests :
          /\ WF_vars((WorkerResponds(i) \/ ProxyError(i))
                         /\ UNCHANGED <<serverVars, saverVars, clientVars, handlerVars, diskVars, shutdownVars, reconcilerVars, watcherVars>>)
          /\ WF_vars((WorkerResponds(i) \/ RetryFails(i))
                         /\ UNCHANGED <<serverVars, saverVars, clientVars, handlerVars, diskVars, shutdownVars, reconcilerVars, watcherVars>>)

SpecProxyFair == SpecProxy /\ FairProxy

(***************************************************************************)
(* The client: SyncManager with the FileWatcher and the application that   *)
(* wires them.  One client (Me) is modelled with its sync folder; the      *)
(* other client acts on the server directly.  A request of the client and  *)
(* the server's handling of it are one step; an upload is two steps, the   *)
(* call of uploadFile up to the request and the arrival of the answer, so  *)
(* that calls of uploadFile can overlap.  Times are read off the server    *)
(* clock `now`.                                                            *)
(***************************************************************************)
Me == "alice"

Other == "bob"

ClientFileIds == 1..MaxClientIds

\* this.watcher.on('unlink', (filePath) => this.handleFileEvent(filePath, 'delete'))
WatcherEventType(fsEvent) == IF fsEvent = "unlink" THEN "delete" ELSE fsEvent

\* updateSyncStatus(fileName, status, details): details may carry a version
updateSyncStatus(st, fileName, status, version) ==
    Put(st, fileName,
        [status |-> status,
         version |-> IF version # 0 THEN version
                     ELSE IF fileName \in DOMAIN st THEN st[fileName].version ELSE 0])

\* GET /files: the names of files/ with the data of their latest record
ServerFiles(fl, md) ==
    [n \in DOMAIN fl |->
        IF HasVersions(md, n)
        THEN [version |-> getLatestVersion(md, n).version,
              lastModified |-> getLatestVersion(md, n).lastModified]
        ELSE [version |-> 0, lastModified |-> 0]]

\* new RegExp(`^${baseName}_conflicted_by_.+\\.${ext}$`) matches a listed name
hasConflictFile(fileName, listed) ==
    \E c \in Clients : ConflictFileName(fileName, c) \in listed

\* the files compareAndSync downloads: listed, not recently deleted, and
\* absent locally or shadowed by a conflict copy (the listing of GET /files
\* carries no checksum, so the comparison of checksums never asks for one)
ToDownload(listed, localNames, deleted) ==
    {n \in listed \ deleted : n \notin localNames \/ hasConflictFile(n, listed)}

\* the local files compareAndSync treats as not on the server
Orphans(listed, localNames, deleted) ==
    {n \in localNames : n \notin listed /\ n \notin deleted}

\* const isNewFile = fileAge < 5000
isNewFile(mtime, t) == t - mtime < NEW_FILE_AGE_MS

\* downloadFile(serverFile): the blob is written and its mtime set to the
\* listed lastModified
Downloaded(loc, fl, listing, names) ==
    [n \in DOMAIN loc \cup names |->
        IF n \in names
        THEN [content |-> fl[n], mtime |-> listing[n].lastModified]
        ELSE loc[n]]

RECURSIVE MarkAll(_, _, _)
MarkAll(st, names, status) ==
    IF names = {} THEN st
    ELSE LET n == CHOOSE x \in names : TRUE
         IN  MarkAll(updateSyncStatus(st, n, status, 0), names \ {n}, status)

\* start() awaits the first full sync, uploads included, before the periodic
\* sync and the watcher are started
Started == syncs > 0 /\ \A i \in DOMAIN calls : calls[i].origin # "start"

\* the user writes a file in the sync folder
LocalEdit(fileName, content) ==
    /\ edits < MaxEdits
    /\ fileName \in DOMAIN local => local[fileName].content # content
    /\ edits' = edits + 1
    /\ local' = Put(local, fileName, [content |-> content, mtime |-> now])
    /\ events' = IF ~Started THEN events
                  ELSE (events \ {<<fileName, "add">>, <<fileName, "change">>,
                                  <<fileName, "unlink">>})
                       \cup {<<fileName, IF fileName \in DOMAIN local THEN "change" ELSE "add">>}
    /\ UNCHANGED <<pendingUploads, pendingDeletions, recentlyDeleted, fileSyncStatus,
                   calls, online, syncs, lastConflictLocalInfo, unsent>>

\* the user removes a file from the sync folder
LocalDelete(fileName) ==
    /\ edits < MaxEdits
    /\ fileName \in DOMAIN local
    /\ edits' = edits + 1
    /\ local' = Remove(local, {fileName})
    /\ events' = IF ~Started THEN events
                  ELSE (events \ {<<fileName, "add">>, <<fileName, "change">>,
                                  <<fileName, "unlink">>})
                       \cup {<<fileName, "unlink">>}
    /\ UNCHANGED <<pendingUploads, pendingDeletions, recentlyDeleted, fileSyncStatus,
                   calls, online, syncs, lastConflictLocalInfo, unsent>>

\* the fields of the SyncManager that uploadFile works on
Uploader ==
    [pendingUploads |-> pendingUploads, fileSyncStatus |-> fileSyncStatus,
     calls |-> calls, unsent |-> unsent]

\* uploadFile(filePath) up to the request: refused when an upload of the
\* name is pending, and in every case that does not leave a request in
\* flight the finally block has deleted the name from pendingUploads
uploadFile(u, fileName, origin) ==
    IF fileName \in u.pendingUploads
    THEN [u EXCEPT !.pendingUploads = @ \ {fileName}]
    ELSE IF fileName \notin DOMAIN local \/ ~online
    THEN [u EXCEPT !.fileSyncStatus = updateSyncStatus(@, fileName, "error", 0),
                   !.unsent = IF fileName \in DOMAIN local
                               THEN @ \cup {<<fileName, local[fileName].content>>} ELSE @]
    ELSE [u EXCEPT !.pendingUploads = @ \cup {fileName},
                   !.fileSyncStatus = updateSyncStatus(@, fileName, "uploading", 0),
                   !.calls = Append(@, [fileName |-> fileName, origin |-> origin,
                                        content |-> local[fileName].content,
                                        lastModified |-> local[fileName].mtime])]

RECURSIVE uploadFiles(_, _, _)
uploadFiles(u, names, origin) ==
    IF names = {} THEN u
    ELSE LET n == CHOOSE x \in names : TRUE
         IN  uploadFiles(uploadFile(u, n, origin), names \ {n}, origin)

SetUploader(u) ==
    /\ Len(u.calls) <= MaxCalls
    /\ pendingUploads' = u.pendingUploads
    /\ fileSyncStatus' = u.fileSyncStatus
    /\ calls' = u.calls
    /\ unsent' = u.unsent

\* the watcher reports a change (after its debounce) and the application
\* passes it to SyncManager.handleFileChange
WatcherEvent(fileName, fsEvent) ==
    /\ <<fileName, fsEvent>> \in events
    /\ Started
    /\ events' = events \ {<<fileName, fsEvent>>}
    /\ LET type == WatcherEventType(fsEvent)
           u == [Uploader EXCEPT
                    !.fileSyncStatus = updateSyncStatus(@, fileName, "processing", 0)]
       IN  IF type = "unlink"
           THEN /\ pendingDeletions' = pendingDeletions \cup {fileName}
                /\ SetUploader([u EXCEPT
                       !.fileSyncStatus = updateSyncStatus(@, fileName, "deleted", 0)])
           ELSE IF type \in {"add", "change"}
           THEN /\ SetUploader(uploadFile(u, fileName, "watcher"))
                /\ UNCHANGED pendingDeletions
           ELSE /\ SetUploader(u)
                /\ UNCHANGED pendingDeletions
    /\ UNCHANGED <<local, recentlyDeleted, online, syncs, lastConflictLocalInfo, edits>>

\* the answer to an upload request arrives: the server handles the request
\* and uploadFile runs on from `await this.api.uploadFile`
UploadReturn(i, fileId) ==
    /\ i \in DOMAIN calls
    /\ LET call == calls[i]
           fileName == call.fileName
       IN  /\ UploadSafe(fileName, Me, call.content, call.lastModified, fileId)
           /\ calls' = SubSeq(calls, 1, i - 1) \o SubSeq(calls, i + 1, Len(calls))
           /\ pendingUploads' = pendingUploads \ {fileName}
           /\ IF resp'.status = 200
              THEN /\ fileSyncStatus' =
                          updateSyncStatus(fileSyncStatus, fileName, "synced", resp'.version)
                   /\ UNCHANGED <<local, lastConflictLocalInfo>>
              ELSE IF resp'.status = 409
              THEN LET listing == ServerFiles(files', metadata')
                       listed == fileName \in DOMAIN listing
                       conflict == updateSyncStatus(fileSyncStatus, fileName, "conflict", 0)
                       synced == IF listed
                                 THEN updateSyncStatus(conflict, fileName, "synced",
                                                       listing[fileName].version)
                                 ELSE conflict
                   IN  /\ lastConflictLocalInfo' =
                              [fileName |-> fileName,
                               content |-> IF fileName \in DOMAIN local
                                           THEN local[fileName].content ELSE <<>>]
                       /\ local' = IF listed
                                   THEN Downloaded(local, files', listing, {fileName})
                                   ELSE local
                       \* handleFileChange catches what uploadFile rethrows:
                       \* 'error', then handleConflict leaves 'conflict'
                       /\ fileSyncStatus' =
                              IF call.origin = "watcher"
                              THEN updateSyncStatus(
                                       updateSyncStatus(synced, fileName, "error", 0),
                                       fileName,
                                       IF fileName \in DOMAIN local'
                                       THEN "conflict" ELSE "conflict-error", 0)
                              ELSE synced
              ELSE /\ fileSyncStatus' = updateSyncStatus(fileSyncStatus, fileName, "error", 0)
                   /\ UNCHANGED <<local, lastConflictLocalInfo>>
    /\ UNCHANGED <<events, pendingDeletions, recentlyDeleted, online, syncs, edits, unsent>>

\* performFullSync / performSyncQuietly with compareAndSync, the server
\* reachable (when it is not, listFiles throws and the pass does nothing)
ReconcilerTick ==
    /\ online
    /\ syncs = 0 \/ Started
    /\ LET listing == ServerFiles(files, metadata)
           listed == DOMAIN listing
           localNames == DOMAIN local
           \* 1. pending deletions
           toDelete == pendingDeletions \cap listed
           deleted == recentlyDeleted \cup pendingDeletions
           \* 2. files to download
           downloads == ToDownload(listed, localNames, deleted)
           \* 4. local files not on server
           orphans == Orphans(listed, localNames, deleted)
           uploads == {n \in orphans : isNewFile(local[n].mtime, now)}
           removes == orphans \ uploads
           st == MarkAll(MarkAll(fileSyncStatus, downloads, "synced"), removes, "deleted")
       IN  /\ files' = Remove(files, toDelete)
           /\ pendingDeletions' = {}
           /\ recentlyDeleted' = deleted
           /\ local' = Remove(Downloaded(local, files, listing, downloads), removes)
           /\ events' = events \cup {<<n, "unlink">> : n \in removes}
           /\ SetUploader(uploadFiles([Uploader EXCEPT !.fileSyncStatus = st], uploads,
                                      IF syncs = 0 THEN "start" ELSE "tick"))
    /\ syncs' = IF syncs < 2 THEN syncs + 1 ELSE 1
    /\ UNCHANGED <<versions, metadata, conflicts, chunks, recentUploads, now, sessions, resp,
                   online, lastConflictLocalInfo, edits>>

\* the server becomes unreachable for the client, or reachable again
Disconnect ==
    /\ online
    /\ Started
    /\ calls = <<>>
    /\ online' = FALSE
    /\ UNCHANGED <<local, events, pendingUploads, pendingDeletions, recentlyDeleted,
                   fileSyncStatus, calls, syncs, lastConflictLocalInfo, edits, unsent>>

Reconnect ==
    /\ ~online
    /\ online' = TRUE
    /\ UNCHANGED <<local, events, pendingUploads, pendingDeletions, recentlyDeleted,
                   fileSyncStatus, calls, syncs, lastConflictLocalInfo, edits, unsent>>

\* what a step of the client, with the server's handling of its request,
\* leaves alone
notClientVars == <<saverVars, lbVars, proxyVars, handlerVars, diskVars, shutdownVars, reconcilerVars, watcherVars>>

FsEvents == {"add", "change", "unlink"}

InitClientRun == InitServer /\ NoSavers /\ NoLoadBalancer /\ NoOthers

\* the client alone with the server
NextLocal ==
    \/ /\ \E fileName \in Names, content \in Contents : LocalEdit(fileName, content)
       /\ UNCHANGED <<serverVars, notClientVars>>
    \/ /\ \E fileName \in Names : LocalDelete(fileName)
       /\ UNCHANGED <<serverVars, notClientVars>>
    \/ /\ \E fileName \in Names, fsEvent \in FsEvents : WatcherEvent(fileName, fsEvent)
       /\ UNCHANGED <<serverVars, notClientVars>>
    \/ /\ \E i \in 1..MaxCalls, fileId \in NewFileId(ClientFileIds) : UploadReturn(i, fileId)
       /\ UNCHANGED notClientVars
    \/ /\ ReconcilerTick
       /\ UNCHANGED notClientVars
    \/ /\ Disconnect
       /\ UNCHANGED <<serverVars, notClientVars>>
    \/ /\ Reconnect
       /\ UNCHANGED <<serverVars, notClientVars>>
    \/ /\ Tick
       /\ UNCHANGED notServerVars

SpecLocal == InitClientRun /\ [][NextLocal]_vars

\* the client and another client that uploads to the same server
NextShared ==
    \/ /\ \E fileName \in Names, content \in Contents : LocalEdit(fileName, content)
       /\ UNCHANGED <<serverVars, notClientVars>>
    \/ /\ \E fileName \in Names, fsEvent \in FsEvents : WatcherEvent(fileName, fsEvent)
       /\ UNCHANGED <<serverVars, notClientVars>>
    \/ /\ \E i \in 1..MaxCalls, fileId \in NewFileId(ClientFileIds) : UploadReturn(i, fileId)
       /\ UNCHANGED notClientVars
    \/ /\ ReconcilerTick
       /\ UNCHANGED notClientVars
    \/ /\ \E fileName \in Names, content \in Contents, fileId \in NewFileId(ClientFileIds) :
             UploadSafe(fileName, Other, content, now, fileId)
       /\ UNCHANGED notServerVars
    \/ /\ Tick
       /\ UNCHANGED notServerVars

SpecShared == InitClientRun /\ [][NextShared]_vars

\* The client's scheduling: the watcher reports what it has seen, a request
\* in flight is answered, and the periodic sync keeps running while the
\* server is reachable.  The last two are weak fairness of UploadReturn and
\* of ReconcilerTick, written out as "infinitely often not possible, or
\* infinitely often taken" with the guards of the two actions.
AnswerPossible(i) == i \in DOMAIN calls

SyncPossible == online /\ (syncs = 0 \/ Started)

FairClient ==
    /\ \A fileName \in Names, fsEvent \in FsEvents :
          WF_vars(WatcherEvent(fileName, fsEvent) /\ UNCHANGED <<serverVars, notClientVars>>)
    /\ \A i \in 1..MaxCalls :
          \/ []<>(~AnswerPossible(i))
          \/ []<><<(\E fileId \in NewFileId(ClientFileIds) : UploadReturn(i, fileId))
                      /\ UNCHANGED notClientVars>>_vars
    /\ \/ []<>(~SyncPossible)
       \/ []<><<ReconcilerTick /\ UNCHANGED notClientVars>>_vars

SpecLocalFair == SpecLocal /\ FairClient

SpecSharedFair == SpecShared /\ FairClient

(***************************************************************************)
(* Properties.                                                             *)
(***************************************************************************)
RecordedNames == {metadata[f].fileName : f \in DOMAIN metadata}

VersionsOf(fileName) == {r.version : r \in getAllVersions(metadata, fileName)}

MaxVersionOf(fileName) ==
    CHOOSE v \in VersionsOf(fileName) : \A u \in VersionsOf(fileName) : u <= v

\* C1: for every file name that has version records, the versions of its
\* records are exactly 1..K for some K >= 1, and no two records share both
\* file name and version.
C1_VersionsContiguous ==
    /\ \A n \in RecordedNames : VersionsOf(n) = 1..MaxVersionOf(n)
    /\ \A f, g \in DOMAIN metadata :
          (metadata[f].fileName = metadata[g].fileName
              /\ metadata[f].version = metadata[g].version) => f = g

\* C2: after every answered request, every version record has its blob
\* versions/<fileName>.v<version>, and a current blob files/<fileName> has the
\* bytes of the highest-numbered version record of that name.
C2_BlobsMatchRecords ==
    /\ \A f \in DOMAIN metadata :
          <<metadata[f].fileName, metadata[f].version>> \in DOMAIN versions
    /\ \A n \in DOMAIN files :
          /\ HasVersions(metadata, n)
          /\ <<n, MaxVersionOf(n)>> \in DOMAIN versions
          /\ files[n] = versions[<<n, MaxVersionOf(n)>>]
          /\ \A r \in getAllVersions(metadata, n) :
                r.version = MaxVersionOf(n) => r.checksum = calculateChecksum(files[n])

\* C10: an upload (upload-safe or chunked) that is rejected because the
\* server detected a simultaneous modification, by the upload window or by
\* the fallback inside saveMetadata, is answered 409 and never 500.
C10_ConflictIs409 ==
    (/\ resp.op \in {"upload-safe", "chunk"}
     /\ resp.windowConflict \/ resp.fallback
     /\ resp.status # 200) => resp.status = 409

\* The answered request took part in a window conflict: its candidates, the
\* winner first.
WindowAnswered == resp.op = "upload-safe" /\ resp.windowConflict

Winner == resp.candidates[1]

Losers == Tail(resp.candidates)

ConflictsOf(fileName) == {k \in DOMAIN conflicts : conflicts[k].fileName = fileName}

\* C3: when the window of an arriving safe upload holds two or more distinct
\* (clientId, checksum) pairs, the winner is the entry with the earliest
\* lastModified, and once the request is answered the latest version record
\* of the file carries the winner's checksum and clientId.
C3_WinnerIsLatest ==
    WindowAnswered =>
        /\ \A i \in 1..Len(resp.candidates) :
              Winner.lastModified <= resp.candidates[i].lastModified
        /\ HasVersions(metadata, resp.fileName)
        /\ \A r \in getAllVersions(metadata, resp.fileName) :
              r.version = MaxVersionOf(resp.fileName) =>
                  r.checksum = Winner.checksum /\ r.clientId = Winner.clientId

\* C4: in a window conflict the winning client is answered 200 with the
\* winner's metadata and a conflict id, a losing client 409 with its
\* conflictFileName and the conflict id; no other status is ever sent.
C4_ConflictAnswers ==
    WindowAnswered =>
        IF resp.clientId = Winner.clientId
        THEN /\ resp.status = 200
             /\ resp.metadata.checksum = Winner.checksum
             /\ resp.metadata.clientId = Winner.clientId
             /\ \E k \in DOMAIN conflicts : ToString(k) = resp.conflictId
        ELSE /\ resp.status = 409
             /\ resp.conflictFileName = ConflictFileName(resp.fileName, resp.clientId)
             /\ \E k \in DOMAIN conflicts : ToString(k) = resp.conflictId

\* the uploads to fileName that are in the window are pairwise conflicting:
\* different clients, different checksums, lastModified within 5 s
PairwiseConflicting(arr) ==
    \A i, j \in 1..Len(arr) : i # j =>
        /\ arr[i].clientId # arr[j].clientId
        /\ arr[i].checksum # arr[j].checksum
        /\ Abs(arr[i].lastModified - arr[j].lastModified) < CONFLICT_THRESHOLD

\* C5: concurrent conflicting uploads to one file name, in any arrival order
\* inside the window, leave exactly one conflict record for the file and
\* exactly one version record under each loser's conflicted_by name.
C5_OneConflictPerEpisode ==
    \A n \in DOMAIN recentUploads :
        LET arr == recentUploads[n]
            sorted == SortByLastModified(arr)
        IN  (/\ Len(arr) >= 2
             /\ PairwiseConflicting(arr)
             /\ \A i \in 1..Len(arr) : arr[i].timestamp = now
             /\ \A f \in DOMAIN metadata : \E i \in 1..Len(arr) : arr[i].fileId = f)
            => /\ Cardinality(ConflictsOf(n)) = 1
               /\ \A i \in 2..Len(sorted) :
                     Cardinality(getAllVersions(metadata,
                         ConflictFileName(n, sorted[i].clientId))) = 1

AlreadyExists == "already-exists"

\* a conflict document of fileName lists (clientId, checksum) among its losers
RecordedLoser(fileName, clientId, checksum) ==
    \E k \in ConflictsOf(fileName) : \E i \in 1..Len(conflicts[k].losers) :
        /\ conflicts[k].winner.clientId # clientId
        /\ conflicts[k].losers[i].clientId = clientId
        /\ conflicts[k].losers[i].checksum = checksum

InWindow(fileName, clientId, checksum) ==
    /\ fileName \in DOMAIN CleanWindow(recentUploads, now)
    /\ \E i \in 1..Len(CleanWindow(recentUploads, now)[fileName]) :
          /\ CleanWindow(recentUploads, now)[fileName][i].clientId = clientId
          /\ CleanWindow(recentUploads, now)[fileName][i].checksum = checksum

\* C6: once a conflict is recorded, a further safe upload of the same bytes by
\* a losing client inside the window is answered 409 with conflict id
\* "already-exists" and adds no version record and no conflict record.
C6_RepeatedLoser ==
    [][\A fileName \in Names, clientId \in Clients, fileBuffer \in Contents,
          lastModified \in LastMods, fileId \in WindowFileIds :
          (/\ RecordedLoser(fileName, clientId, calculateChecksum(fileBuffer))
           /\ InWindow(fileName, clientId, calculateChecksum(fileBuffer))
           /\ UploadSafe(fileName, clientId, fileBuffer, lastModified, fileId))
          => /\ resp'.status = 409
             /\ resp'.conflictId = AlreadyExists
             /\ Cardinality(DOMAIN metadata') = Cardinality(DOMAIN metadata)
             /\ \A f \in DOMAIN metadata : metadata'[f] = metadata[f]
             /\ conflicts' = conflicts]_vars

\* C7: for every loser of a window conflict, once the request is answered the
\* latest version under <base>_conflicted_by_<clientId><ext> has that loser's
\* bytes and its record has conflict = true and conflictedWith = the file name.
C7_LoserCopies ==
    WindowAnswered =>
        \A i \in 1..Len(Losers) :
            LET cn == ConflictFileName(resp.fileName, Losers[i].clientId)
            IN  /\ HasVersions(metadata, cn)
                /\ <<cn, MaxVersionOf(cn)>> \in DOMAIN versions
                /\ versions[<<cn, MaxVersionOf(cn)>>] = Losers[i].buffer
                /\ \A r \in getAllVersions(metadata, cn) :
                      r.version = MaxVersionOf(cn) =>
                          r.conflict /\ r.conflictedWith = resp.fileName

\* C8: when upload-safe, or the completing chunk of a chunked upload, of bytes
\* B to name N is answered with success and version v, the blob N.v<v> has
\* bytes B, and if v is the latest version the current blob of N has bytes B.
C8_UploadStored ==
    (/\ resp.op \in {"upload-safe", "chunk"}
     /\ resp.status = 200
     /\ resp.version # 0)
    => /\ <<resp.fileName, resp.version>> \in DOMAIN versions
       /\ versions[<<resp.fileName, resp.version>>] = resp.buffer
       /\ (HasVersions(metadata, resp.fileName) /\ resp.version = MaxVersionOf(resp.fileName))
             => (resp.fileName \in DOMAIN files /\ files[resp.fileName] = resp.buffer)

\* every record of the highest version of fileName has this checksum
SameAsLatest(fileName, checksum) ==
    /\ HasVersions(metadata, fileName)
    /\ \A r \in getAllVersions(metadata, fileName) :
          r.version = MaxVersionOf(fileName) => r.checksum = checksum

\* C9: an upload (safe, or the completing chunk of a chunked one) whose bytes
\* have the checksum of the latest version record of its name creates no
\* version record and is answered with the existing latest version, with
\* duplicate = true on the chunked path.
C9_IdempotentUpload ==
    [][/\ (/\ resp'.op = "upload-safe"
           /\ SameAsLatest(resp'.fileName, calculateChecksum(resp'.buffer))
           /\ \E lastModified \in LastMods, fileId \in FileIds \cup {0} :
                 UploadSafe(resp'.fileName, resp'.clientId, resp'.buffer, lastModified, fileId))
          => /\ metadata' = metadata
             /\ resp'.status = 200
             /\ resp'.version = MaxVersionOf(resp'.fileName)
       /\ (/\ resp'.op = "chunk"
           /\ resp'.buffer # <<>>
           /\ SameAsLatest(resp'.fileName, calculateChecksum(resp'.buffer))
           /\ \E lastModified \in LastMods, chunkNumber \in 1..MaxChunks, fileId \in FileIds :
                 \/ StartChunked(resp'.fileName, resp'.clientId, lastModified, resp'.buffer,
                                 chunkNumber, fileId)
                 \/ ContinueChunked(fileId, chunkNumber))
          => /\ metadata' = metadata
             /\ resp'.status = 200
             /\ resp'.version = MaxVersionOf(resp'.fileName)
             /\ resp'.duplicate]_vars

\* a chunked upload of the bytes of the latest version has been answered as a
\* duplicate of that version
C9_Witness ==
    /\ resp.op = "chunk"
    /\ resp.duplicate
    /\ resp.status = 200
    /\ SameAsLatest(resp.fileName, calculateChecksum(resp.buffer))
    /\ resp.version = MaxVersionOf(resp.fileName)

\* C11: a download of the current blob of a name that has none, and a
\* download of a version that has no version blob, are answered 404.
C11_DownloadAbsentIs404 ==
    /\ (resp.op = "download" /\ resp.fileName \notin DOMAIN files) => resp.status = 404
    /\ (/\ resp.op = "download-version"
        /\ resp.version # 0
        /\ <<resp.fileName, resp.version>> \notin DOMAIN versions) => resp.status = 404

\* what GET /files/:fileName/versions shows of the records of a name
VersionList(md, fileName) ==
    {<<r.version, r.size, r.checksum>> : r \in getAllVersions(md, fileName)}

\* C12: after rename(old, new) of a name that has versions, old has no
\* version records and the records of new are exactly those old had (same
\* version numbers, sizes and checksums).
C12_RenameMovesVersions ==
    [][\A oldName \in AllNames, newName \in AllNames :
          (HasVersions(metadata, oldName) /\ Rename(oldName, newName))
          => /\ getAllVersions(metadata', oldName) = {}
             /\ VersionList(metadata', newName) = VersionList(metadata, oldName)
             /\ Cardinality(getAllVersions(metadata', newName))
                   = Cardinality(getAllVersions(metadata, oldName))]_vars

\* C13: restoring an existing version v of N, with K the latest version before
\* the request, creates version K+1 with the bytes of version v and
\* restoredFrom = v, makes it the current blob, and leaves the records and
\* blobs of versions 1..K unchanged.
C13_RestoreAddsVersion ==
    [][\A fileName \in Names, version \in 1..MaxWindowIds, clientId \in Clients,
          fileId \in WindowFileIds :
          (/\ <<fileName, version>> \in DOMAIN versions
           /\ version \in VersionsOf(fileName)
           /\ Restore(fileName, version, clientId, fileId))
          => LET K == MaxVersionOf(fileName)
             IN  /\ <<fileName, K + 1>> \in DOMAIN versions'
                 /\ versions'[<<fileName, K + 1>>] = versions[<<fileName, version>>]
                 /\ \E r \in getAllVersions(metadata', fileName) :
                        r.version = K + 1 /\ r.restoredFrom = version
                 /\ fileName \in DOMAIN files'
                 /\ files'[fileName] = versions[<<fileName, version>>]
                 /\ \A f \in DOMAIN metadata :
                        f \in DOMAIN metadata' /\ metadata'[f] = metadata[f]
                 /\ \A k \in DOMAIN versions :
                        (k[1] = fileName /\ k[2] <= K) => versions'[k] = versions[k]]_vars

\* C14: a successful DELETE of N removes only the current blob: N is absent
\* from the listing of GET /files, every version record and version blob of N
\* is unchanged, and each version still downloads with its original bytes.
C14_DeleteKeepsHistory ==
    [][\A fileName \in AllNames :
          (fileName \in DOMAIN files /\ Delete(fileName))
          => /\ resp'.status = 200
             /\ fileName \notin listFiles([files |-> files'])
             /\ metadata' = metadata
             /\ versions' = versions
             /\ \A k \in DOMAIN versions :
                    k[1] = fileName =>
                        getFile([files |-> files', versions |-> versions'], k[1], k[2])
                            = [threw |-> FALSE, buffer |-> versions[k]]]_vars

\* a name with version records and version blobs has been deleted
C14_Witness ==
    /\ resp.op = "delete"
    /\ resp.status = 200
    /\ resp.fileName \notin DOMAIN files
    /\ HasVersions(metadata, resp.fileName)
    /\ listVersions(versions, resp.fileName) # {}

\* the answer to the part that completed a chunked upload
Assembled(r) == r.op = "chunk" /\ r.message # "Chunk received"

\* C15: for bytes B sent as parts 1..totalChunks under one fileId, in any
\* order of arrival and with parts re-sent, the blob the server assembles is
\* B, and the version it stores for the upload has the bytes B.
C15_AssembledEqualsSent ==
    [][/\ \A fileId \in WindowFileIds, chunkNumber \in 1..MaxChunks :
             (/\ fileId \in DOMAIN sessions
              /\ ContinueChunked(fileId, chunkNumber)
              /\ Assembled(resp'))
             => /\ resp'.buffer = sessions[fileId].buffer
                /\ resp'.message = "File assembled successfully"
                     => versions'[<<sessions[fileId].fileName, resp'.version>>]
                            = sessions[fileId].buffer
       /\ \A fileName \in Names, clientId \in Clients, fileBuffer \in Contents,
             lastModified \in LastMods, chunkNumber \in 1..MaxChunks,
             fileId \in WindowFileIds :
             (/\ StartChunked(fileName, clientId, lastModified, fileBuffer, chunkNumber, fileId)
              /\ Assembled(resp'))
             => /\ resp'.buffer = fileBuffer
                /\ resp'.message = "File assembled successfully"
                     => versions'[<<fileName, resp'.version>>] = fileBuffer]_vars

\* an upload of two parts has been assembled and stored as a new version
C15_Witness ==
    /\ resp.op = "chunk"
    /\ resp.message = "File assembled successfully"
    /\ Len(resp.buffer) > CHUNK_SIZE
    /\ versions[<<resp.fileName, resp.version>>] = resp.buffer

\* C16: a conflict record goes from unresolved to resolved at most once and
\* never back; once it is resolved, a further resolve request changes neither
\* its stored resolution nor its resolvedAt.
C16_ResolvedOnce ==
    [][\A k \in DOMAIN conflicts :
          conflicts[k].status = "resolved"
          => /\ k \in DOMAIN conflicts'
             /\ conflicts'[k].status = "resolved"
             /\ conflicts'[k].resolution = conflicts[k].resolution
             /\ conflicts'[k].resolvedAt = conflicts[k].resolvedAt]_vars

\* both calls of saveConflict have returned
SaversDone == savers # <<>> /\ \A c \in Callers : savers[c].pc = "done"

\* C17: two calls of saveConflict with documents of the same id, one after
\* the other or at the same time, leave exactly one stored conflict record of
\* that id, and leave the records of other ids as they were.
C17_SaveConflictOnce ==
    (/\ SaversDone
     /\ savers["first"].conflict.id = savers["second"].conflict.id)
    => /\ SavedId \in DOMAIN conflictFiles
       /\ Parses(conflictFiles[SavedId])
       /\ readJson(conflictFiles[SavedId])
              \in {savers[c].conflict : c \in Callers}
       /\ OtherId \in DOMAIN conflictFiles
       /\ Parses(conflictFiles[OtherId])
       /\ readJson(conflictFiles[OtherId]).id = OtherId

\* the version records a conflict document names
References(c) ==
    ({c.winner, c.existing, c.incoming} \ {NoMeta}) \cup {c.losers[i] : i \in 1..Len(c.losers)}

\* the metadata store holds the version record a reference names
IsStored(md, ref) ==
    \E f \in DOMAIN md :
        /\ md[f].fileId = ref.fileId
        /\ md[f].fileName = ref.fileName
        /\ md[f].version = ref.version

\* C18: every conflict record, written by the upload window or by the
\* fallback inside saveMetadata, names only version records that are in the
\* metadata store when the conflict record is written.
C18_ConflictReferencesExist ==
    [][\A k \in (DOMAIN conflicts') \ (DOMAIN conflicts) :
          \A ref \in References(conflicts'[k]) : IsStored(metadata', ref)]_vars

\* C19: in every state of the supervisor, after crashes, failed start-ups and
\* health-check restarts, the worker processes it has started and not yet
\* seen exit number at most maxInstances.
C19_AtMostMaxInstances == Cardinality(DOMAIN processes) <= maxInstances

healthyCount == Cardinality(getHealthyServers(servers))

\* C20: whenever no worker is healthy (as after the exit of the last healthy
\* worker), some worker is healthy again later; and with minInstances = 2,
\* whenever fewer than two are healthy, two are healthy again later.
C20_HealthyAgain ==
    /\ (healthyCount = 0) ~> (healthyCount > 0)
    /\ (minInstances = 2 /\ healthyCount < 2) ~> (healthyCount >= 2)

\* a worker has exited and two workers are healthy again
C20_Witness == crashes > 0 /\ minInstances = 2 /\ healthyCount >= 2

\* C21: a request the proxy dispatches goes first to a worker that is marked
\* healthy when it is dispatched, and of consecutive requests that all met the
\* same set of k healthy workers, any k go to k distinct workers.
C21_RoundRobinOverHealthy ==
    /\ \A i \in DOMAIN requests :
          IF requests[i].healthy = {}
          THEN requests[i].target = 0
          ELSE requests[i].target \in requests[i].healthy
    /\ \A i, j \in DOMAIN requests :
          (/\ i < j
           /\ requests[i].healthy # {}
           /\ \A m \in i..j : requests[m].healthy = requests[i].healthy
           /\ j - i + 1 <= Cardinality(requests[i].healthy))
          => requests[i].target # requests[j].target

\* two consecutive requests were dispatched while the same two workers were healthy
C21_Witness ==
    /\ Len(requests) = 2
    /\ Cardinality(requests[1].healthy) = 2
    /\ requests[2].healthy = requests[1].healthy

\* C22: a request whose transport failed is retried on a healthy worker other
\* than the one that failed, and every request the proxy received is
\* eventually answered, by a worker or with 503.
C22_AlwaysAnswered ==
    /\ [](\A i \in DOMAIN requests :
            requests[i].retry # 0 => requests[i].retry # requests[i].target)
    /\ \A i \in 1..MaxRequests :
          (Len(requests) >= i)
              ~> (Len(requests) >= i /\ requests[i].stage \in {"answered", "unavailable"})

\* C23: in every state of the supervisor, the healthyServers of getStatus()
\* is at most its totalServers, and every port counted as healthy is a key
\* of this.servers.
C23_HealthyAtMostTotal ==
    /\ getStatus(servers).healthyServers <= getStatus(servers).totalServers
    /\ getStatus(servers).servers \subseteq DOMAIN servers

\* one of two workers is healthy, the other was marked unhealthy by the proxy
C23_Witness ==
    /\ getStatus(servers).totalServers = 2
    /\ getStatus(servers).healthyServers = 1
    /\ \E i \in DOMAIN requests :
          requests[i].stage = "retried" /\ requests[i].target \in DOMAIN servers

\* the watcher reports the removal of fileName to the SyncManager
ReportsDeletion(fileName) ==
    /\ <<fileName, "unlink">> \in events
    /\ <<fileName, "unlink">> \notin events'
    /\ edits' = edits

\* C24: when the watcher reports a local deletion the name joins
\* pendingDeletions and the server is not touched; a name in pendingDeletions
\* is, with the server reachable, later deleted from the server, marked
\* recently deleted and no longer pending, and is not in the sync folder.
C24_DeletionViaReconciler ==
    /\ [][\A fileName \in Names :
            ReportsDeletion(fileName)
                => (fileName \in pendingDeletions' /\ files' = files)]_vars
    /\ \A fileName \in Names :
          (fileName \in pendingDeletions /\ online)
              ~> (/\ fileName \notin DOMAIN files
                  /\ fileName \in recentlyDeleted
                  /\ fileName \notin pendingDeletions)

\* a step of the reconciler
ReconcilerStep == syncs' # syncs

\* C25: in a reconciler pass, a local file that is not listed by the server
\* and neither pending-deleted nor recently-deleted is kept and handed to
\* uploadFile when the pass is the first after start-up or the file is
\* younger than the grace period, and is removed locally otherwise.
C25_UploadOrRemove ==
    [][ReconcilerStep =>
        \A fileName \in DOMAIN local :
            (/\ fileName \notin DOMAIN files
             /\ fileName \notin pendingDeletions
             /\ fileName \notin recentlyDeleted)
            => IF syncs = 0 \/ isNewFile(local[fileName].mtime, now)
               THEN /\ fileName \in DOMAIN local'
                    /\ fileName \in pendingUploads \/ fileName \in pendingUploads'
               ELSE fileName \notin DOMAIN local']_vars

\* the upload requests in flight for a name
InFlight(fileName) == {i \in DOMAIN calls : calls[i].fileName = fileName}

\* C30: at any time at most one upload request of the client is in flight
\* for a name, whatever watcher events and reconciler passes have called
\* uploadFile for it, refused calls included.
C30_OneUploadInFlight == \A fileName \in Names : Cardinality(InFlight(fileName)) <= 1

\* the content was stored on the server as a version of the name
HasUploaded(fileName, content) ==
    \E m \in getAllVersions(metadata, fileName) : m.checksum = calculateChecksum(content)

\* C26: while the server is unreachable nothing is uploaded or deleted on
\* it, and a change the watcher reported during that time is uploaded once
\* the server is reachable again and stays reachable.
C26_OfflineChangesUploaded ==
    /\ [][~online => files' = files /\ metadata' = metadata /\ calls' = calls]_vars
    /\ \A fileName \in Names, content \in Contents :
          (<<fileName, content>> \in unsent /\ online)
             ~> (~online \/ HasUploaded(fileName, content))

\* the client holds an older version of the name than the server's current
\* one, uploaded by another client, and has no change of its own under way
Behind(fileName) ==
    /\ fileName \in DOMAIN files
    /\ fileName \in DOMAIN local
    /\ local[fileName].content # files[fileName]
    /\ HasVersions(metadata, fileName)
    /\ LatestByReduce(metadata, fileName).clientId = Other
    /\ \E m \in getAllVersions(metadata, fileName) :
          /\ m.checksum = calculateChecksum(local[fileName].content)
          /\ m.version < LatestByReduce(metadata, fileName).version
    /\ InFlight(fileName) = {}
    /\ \A fsEvent \in FsEvents : <<fileName, fsEvent>> \notin events

\* C27: a client whose copy of a file is an older version than the one
\* another client has uploaded does not stay behind: the reconciler
\* downloads the server's current content.
C27_NewerVersionDownloaded == \A fileName \in Names : Behind(fileName) ~> ~Behind(fileName)

\* a step in which an upload of the client is answered 409
Answered409 == Len(calls') < Len(calls) /\ resp'.status = 409

\* C28: when an upload of a name is answered 409, started by a watcher
\* event or by the reconciler, the local content is captured, the local
\* file becomes the server's current version with the server's
\* lastModified as mtime, and the status of the name is "synced" at the
\* server's version.
C28_ConflictAdoptsServer ==
    [][Answered409 =>
          LET fileName == resp'.fileName
              listing == ServerFiles(files', metadata')
          IN  (fileName \in DOMAIN local /\ fileName \in DOMAIN listing) =>
                 /\ lastConflictLocalInfo'.fileName = fileName
                 /\ lastConflictLocalInfo'.content = local[fileName].content
                 /\ local'[fileName].content = files'[fileName]
                 /\ local'[fileName].mtime = listing[fileName].lastModified
                 /\ fileSyncStatus'[fileName].status = "synced"
                 /\ fileSyncStatus'[fileName].version = listing[fileName].version]_vars

(***************************************************************************)
(* POST /files/upload-safe, one await at a time.  The handler is an async  *)
(* function: between two of its awaits other requests of the same worker   *)
(* run, and a second worker process works on the same directories with a   *)
(* recentUploads map of its own.                                           *)
(***************************************************************************)
MaxUploads == 2

Workers == {1, 2}

\* the lastModified values the clients send
LastModifieds == {now, now + CONFLICT_THRESHOLD}

\* global.recentUploads of the worker
WindowOf(worker) == IF worker = 1 THEN recentUploads ELSE peerUploads

\* the request arrives at a worker; the handler runs up to
\* await metadataStorage.getAllVersions(fileName)
Receive(r, worker, fileName, clientId, fileBuffer, lastModified) ==
    /\ r \notin DOMAIN handling
    /\ r = Cardinality(DOMAIN handling) + 1
    /\ r <= MaxUploads
    /\ handling' = Put(handling, r,
                       [pc |-> "getAllVersions", worker |-> worker, fileName |-> fileName,
                        clientId |-> clientId, buffer |-> fileBuffer,
                        lastModified |-> lastModified, fileId |-> r,
                        candidates |-> <<>>, nextVersion |-> 0])
    /\ UNCHANGED <<serverVars, peerUploads>>

\* getAllVersions has answered: the up-to-date check and the window logic
\* run without an await, up to the next read of the metadata
CheckWindow(r) ==
    /\ r \in DOMAIN handling
    /\ handling[r].pc = "getAllVersions"
    /\ LET h == handling[r]
           checksum == calculateChecksum(h.buffer)
           cleaned == CleanWindow(WindowOf(h.worker), now)
           arr == (IF h.fileName \in DOMAIN cleaned THEN cleaned[h.fileName] ELSE <<>>)
                  \o <<WindowEntry(h.clientId, h.lastModified, h.buffer, h.fileId)>>
           allCandidates == UniqueCandidates(arr)
       IN  IF /\ HasVersions(metadata, h.fileName)
              /\ LatestByReduce(metadata, h.fileName).checksum = checksum
           THEN /\ handling' = [handling EXCEPT ![r].pc = "done"]
                /\ UNCHANGED <<recentUploads, peerUploads>>
           ELSE /\ handling' = [handling EXCEPT
                                   ![r].pc = IF Len(allCandidates) > 1
                                             THEN "conflict" ELSE "getNextVersion",
                                   ![r].candidates = allCandidates]
                /\ recentUploads' = IF h.worker = 1 THEN Put(cleaned, h.fileName, arr)
                                     ELSE recentUploads
                /\ peerUploads' = IF h.worker = 1 THEN peerUploads
                                   ELSE Put(cleaned, h.fileName, arr)
    /\ UNCHANGED <<files, versions, metadata, conflicts, chunks, now, sessions, resp>>

\* the multi-client branch of the handler
ResolveWindow(r) ==
    /\ r \in DOMAIN handling
    /\ handling[r].pc = "conflict"
    /\ LET h == handling[r]
       IN  WindowConflict(Request("upload-safe", h.fileName, h.clientId, h.buffer),
                          WindowOf(h.worker)[h.fileName], h.candidates)
    /\ handling' = [handling EXCEPT ![r].pc = "done"]
    /\ UNCHANGED <<chunks, recentUploads, now, sessions, peerUploads>>

\* const nextVersion = await metadataStorage.getNextVersion(fileName)
ReadNextVersion(r) ==
    /\ r \in DOMAIN handling
    /\ handling[r].pc = "getNextVersion"
    /\ handling' = [handling EXCEPT
                       ![r].pc = "saveFile",
                       ![r].nextVersion = getNextVersion(metadata, handling[r].fileName)]
    /\ UNCHANGED <<serverVars, peerUploads>>

\* await fileStorage.saveFile(fileName, fileBuffer, nextVersion)
WriteFile(r) ==
    /\ r \in DOMAIN handling
    /\ handling[r].pc = "saveFile"
    /\ LET h == handling[r]
       IN  Commit(saveFile(Store, h.fileName, h.buffer, h.nextVersion))
    /\ handling' = [handling EXCEPT ![r].pc = "saveMetadata"]
    /\ UNCHANGED <<chunks, recentUploads, now, sessions, resp, peerUploads>>

\* await metadataStorage.saveMetadata({...}) and the answer
WriteMetadata(r) ==
    /\ r \in DOMAIN handling
    /\ handling[r].pc = "saveMetadata"
    /\ LET h == handling[r]
           req == Request("upload-safe", h.fileName, h.clientId, h.buffer)
           m == Meta(h.fileId, h.fileName, h.nextVersion, h.buffer, h.clientId,
                     h.lastModified)
           saved == saveMetadata(Store, m)
       IN  /\ Commit(saved.st)
           /\ resp' = IF saved.threw
                      THEN [req EXCEPT !.status = 500, !.message = "Conflict detected",
                                       !.fallback = TRUE]
                      ELSE [req EXCEPT !.status = 200,
                                       !.message = "File uploaded successfully",
                                       !.version = h.nextVersion, !.metadata = m]
    /\ handling' = [handling EXCEPT ![r].pc = "done"]
    /\ UNCHANGED <<chunks, recentUploads, now, sessions, peerUploads>>

\* what a step of a handler leaves alone
notHandlerVars == <<saverVars, lbVars, proxyVars, clientVars, diskVars, shutdownVars, reconcilerVars, watcherVars>>

InitHandlers == InitServer /\ NoSavers /\ NoLoadBalancer /\ NoOthers

NextHandlers ==
    \/ /\ \E r \in 1..MaxUploads, worker \in Workers, fileName \in Names,
             clientId \in {Me, Other}, fileBuffer \in Contents,
             lastModified \in LastModifieds :
             Receive(r, worker, fileName, clientId, fileBuffer, lastModified)
       /\ UNCHANGED notHandlerVars
    \/ /\ \E r \in 1..MaxUploads : CheckWindow(r)
       /\ UNCHANGED notHandlerVars
    \/ /\ \E r \in 1..MaxUploads : ResolveWindow(r)
       /\ UNCHANGED notHandlerVars
    \/ /\ \E r \in 1..MaxUploads : ReadNextVersion(r)
       /\ UNCHANGED notHandlerVars
    \/ /\ \E r \in 1..MaxUploads : WriteFile(r)
       /\ UNCHANGED notHandlerVars
    \/ /\ \E r \in 1..MaxUploads : WriteMetadata(r)
       /\ UNCHANGED notHandlerVars

SpecHandlers == InitHandlers /\ [][NextHandlers]_vars

\* C29: two upload requests for one name handled concurrently never leave
\* two version records of the name with the same version number.
C29_VersionsDistinct ==
    \A a, b \in DOMAIN metadata :
        (a # b /\ metadata[a].fileName = metadata[b].fileName)
            => metadata[a].version # metadata[b].version

\* the clients a conflict record names
ConflictClients(c) ==
    IF c.conflictType = "multi_client_concurrent_modification"
    THEN {c.allClients[i] : i \in 1..Len(c.allClients)}
    ELSE {c.existing.clientId, c.incoming.clientId}

\* C31: every conflict record and every conflict copy comes from uploads of
\* at least two distinct clients: uploads of one client alone in the window
\* leave no conflict record and no conflict copy.
C31_ConflictNeedsTwoClients ==
    /\ \A id \in DOMAIN conflicts : Cardinality(ConflictClients(conflicts[id])) >= 2
    /\ \A id \in DOMAIN metadata :
          metadata[id].conflict =>
             \E other \in DOMAIN metadata :
                /\ metadata[other].fileName = metadata[id].conflictedWith
                /\ metadata[other].clientId # metadata[id].clientId

\* a step in which a safe upload of a name that has versions but no current
\* blob (it was deleted) is answered with success
UploadAfterDelete ==
    /\ resp' # resp
    /\ resp'.op = "upload-safe"
    /\ resp'.status = 200
    /\ resp'.fileName \notin DOMAIN files
    /\ HasVersions(metadata, resp'.fileName)

\* C32: a safe upload of a deleted name that is answered with success makes
\* the name present again with the uploaded bytes, in the store and in the
\* listing of GET /files.
C32_UploadAfterDeleteRestores ==
    [][UploadAfterDelete =>
          /\ resp'.fileName \in DOMAIN files'
          /\ files'[resp'.fileName] = resp'.buffer
          /\ resp'.fileName \in DOMAIN ServerFiles(files', metadata')]_vars

\* C33: a reconciler pass removes a local file only if the name has been on
\* the server before (it has a version record there); a file whose content
\* never reached the server is not removed.
C33_RemovesOnlyKnownToServer ==
    [][\A fileName \in Names :
          (ReconcilerStep /\ fileName \in DOMAIN local /\ fileName \notin DOMAIN local')
             => HasVersions(metadata, fileName)]_vars

\* C35: once the part that completes a chunked upload has been answered
\* (new version, duplicate or conflict), the scratch directory holds no part
\* of that fileId: every part in it belongs to an upload still in progress.
C35_ScratchEmptyAfterAssembly == \A k \in DOMAIN chunks : k[1] \in DOMAIN sessions

\* the records a call of detectConflict can be given
Incoming ==
    {Meta(0, fileName, 1, buffer, clientId, lastModified) :
        fileName \in Names, buffer \in Contents, clientId \in Clients,
        lastModified \in LastMods \cup {l + CONFLICT_THRESHOLD : l \in LastMods}}

\* C36: detectConflict reports a conflict exactly when the name has a
\* latest record, the two lastModified values are less than 5000 ms apart,
\* the clients differ and the checksums differ.
C36_DetectConflictExactly ==
    \A incoming \in Incoming :
        detectConflict(metadata, incoming)
            <=> /\ getAllVersions(metadata, incoming.fileName) # {}
                /\ LET latest == getLatestVersion(metadata, incoming.fileName)
                   IN  /\ incoming.lastModified - latest.lastModified < 5000
                       /\ latest.lastModified - incoming.lastModified < 5000
                       /\ incoming.clientId # latest.clientId
                       /\ incoming.checksum # latest.checksum

\* saveMetadata has refused an upload because detectConflict reported a
\* conflict, and another upload of the same client content is no conflict
C36_Witness ==
    /\ resp.op = "upload-safe"
    /\ resp.fallback
    /\ \E id \in DOMAIN conflicts : conflicts[id].conflictType = "concurrent_modification"
    /\ \E incoming \in Incoming : detectConflict(metadata, incoming)
    /\ \E incoming \in Incoming :
          /\ HasVersions(metadata, incoming.fileName)
          /\ ~detectConflict(metadata, incoming)

(***************************************************************************)
(* FileStorage.saveFile and getFile at the level of the file system.       *)
(* fs.writeFile opens the current blob with truncation and then writes the *)
(* bytes; a download of the name by this or another worker reads whatever  *)
(* the file holds at that moment.                                          *)
(***************************************************************************)
MaxWriters == 2

MaxReads == 2

\* the content of a file after a write of byte b at position p
WriteAt(content, p, b) ==
    [i \in 1..(IF Len(content) > p THEN Len(content) ELSE p) |->
        IF i = p THEN b ELSE IF i <= Len(content) THEN content[i] ELSE 0]

\* saveFile: fs.writeFile(filePath, fileBuffer) opens the current blob, which
\* creates or truncates it
OpenForWrite(w, fileName, fileBuffer) ==
    /\ w \notin DOMAIN writers
    /\ w = Cardinality(DOMAIN writers \cup {k[2] : k \in DOMAIN versions}) + 1
    /\ w <= MaxWriters
    /\ files' = Put(files, fileName, <<>>)
    /\ writers' = Put(writers, w, [fileName |-> fileName, buffer |-> fileBuffer,
                                   written |-> 0])
    /\ UNCHANGED <<versions, metadata, conflicts, chunks, recentUploads, now, sessions,
                   resp, reads, complete>>

\* the next bytes of the buffer are written
WriteBytes(w) ==
    /\ w \in DOMAIN writers
    /\ writers[w].written < Len(writers[w].buffer)
    /\ LET h == writers[w]
           p == h.written + 1
           content == IF h.fileName \in DOMAIN files THEN files[h.fileName] ELSE <<>>
       IN  /\ files' = Put(files, h.fileName, WriteAt(content, p, h.buffer[p]))
           /\ writers' = [writers EXCEPT ![w].written = p]
    /\ UNCHANGED <<versions, metadata, conflicts, chunks, recentUploads, now, sessions,
                   resp, reads, complete>>

\* the write of the current blob is finished; saveFile writes the versioned
\* copy, which no download of the current blob reads
CloseWrite(w) ==
    /\ w \in DOMAIN writers
    /\ writers[w].written = Len(writers[w].buffer)
    /\ LET h == writers[w]
       IN  /\ versions' = Put(versions, <<h.fileName, w>>, h.buffer)
           /\ complete' = Put(complete, h.fileName, h.buffer)
    /\ writers' = Remove(writers, {w})
    /\ UNCHANGED <<files, metadata, conflicts, chunks, recentUploads, now, sessions,
                   resp, reads>>

\* GET /files/:fileName/download with getFile(fileName): the bytes the
\* current blob holds now
ReadCurrent(fileName) ==
    /\ Len(reads) < MaxReads
    /\ Download(fileName)
    /\ reads' = Append(reads,
                       [fileName |-> fileName,
                        found |-> fileName \in DOMAIN files,
                        body |-> IF fileName \in DOMAIN files THEN files[fileName] ELSE <<>>,
                        previous |-> IF fileName \in DOMAIN complete
                                     THEN {complete[fileName]} ELSE {},
                        new |-> {writers[w].buffer :
                                   w \in {x \in DOMAIN writers : writers[x].fileName = fileName}}])
    /\ UNCHANGED <<writers, complete>>

notDiskVars == <<saverVars, lbVars, proxyVars, clientVars, handlerVars, shutdownVars, reconcilerVars, watcherVars>>

InitDisk == InitServer /\ NoSavers /\ NoLoadBalancer /\ NoOthers

NextDisk ==
    \/ /\ \E w \in 1..MaxWriters, fileName \in Names, fileBuffer \in Contents :
             OpenForWrite(w, fileName, fileBuffer)
       /\ UNCHANGED notDiskVars
    \/ /\ \E w \in 1..MaxWriters : WriteBytes(w)
       /\ UNCHANGED notDiskVars
    \/ /\ \E w \in 1..MaxWriters : CloseWrite(w)
       /\ UNCHANGED notDiskVars
    \/ /\ \E fileName \in Names : ReadCurrent(fileName)
       /\ UNCHANGED notDiskVars

SpecDisk == InitDisk /\ [][NextDisk]_vars

\* C37: a download of a current blob that exists returns the complete bytes
\* of the last finished save or the complete bytes of a save in progress,
\* never an empty or partly written blob.
C37_DownloadSeesWholeBlob ==
    \A i \in DOMAIN reads :
        reads[i].found => reads[i].body \in reads[i].previous \cup reads[i].new

\* ---------------------------------------------------------------------------
\* Supervisor shutdown (load-balancer.js shutdown, start-proxy signal handlers)
\* ---------------------------------------------------------------------------

\* killServer applied to every port of a set, one after the other.
RECURSIVE killAll(_, _, _)
killAll(sv, pr, ports) ==
    IF ports = {} THEN [servers |-> sv, processes |-> pr]
    ELSE LET port == CHOOSE p \in ports : \A q \in ports : p <= q
             k == killServer(sv, pr, port)
         IN  killAll(k.servers, k.processes, ports \ {port})

\* shutdown(): every promise executor runs synchronously, so all workers of the
\* map are sent SIGTERM and removed from the map in one step; the timers of the
\* supervisor are left alone and no flag records that shutdown has begun.
shutdown ==
    /\ shutdownPhase = "running"
    /\ LET k == killAll(servers, processes, DOMAIN servers)
       IN  /\ servers' = k.servers
           /\ processes' = k.processes
    /\ shutdownPhase' = "begun"
    /\ UNCHANGED <<timers, waiting, currentPort, initialLeft, initWait, crashes, hangs,
                   minInstances, maxInstances>>

\* await Promise.all(shutdownPromises) resolves (1000 ms timers), then the
\* signal handler calls process.exit: the supervisor runs no further callback.
ShutdownComplete ==
    /\ shutdownPhase = "begun"
    /\ shutdownPhase' = "done"
    /\ UNCHANGED lbVars

SupervisorAlive == shutdownPhase # "done"

notShutdownVars == <<serverVars, saverVars, proxyVars, clientVars, handlerVars, diskVars, reconcilerVars, watcherVars>>

NextShutdown ==
    \/ SupervisorAlive /\ StartInitial /\ UNCHANGED notSupervisorVars
    \/ SupervisorAlive /\ TimerFires /\ UNCHANGED notSupervisorVars
    \/ \E port \in Ports : Boot(port) /\ UNCHANGED notSupervisorVars
    \/ \E port \in Ports : SupervisorAlive /\ WaitOk(port) /\ UNCHANGED notSupervisorVars
    \/ \E port \in Ports : SupervisorAlive /\ WaitTimeout(port) /\ UNCHANGED notSupervisorVars
    \/ \E port \in Ports : SupervisorAlive /\ Crash(port) /\ UNCHANGED notSupervisorVars
    \/ \E port \in Ports : SupervisorAlive /\ Exit(port) /\ UNCHANGED notSupervisorVars
    \/ SupervisorAlive /\ performHealthChecks /\ UNCHANGED notSupervisorVars
    \/ shutdown /\ UNCHANGED notShutdownVars
    \/ ShutdownComplete /\ UNCHANGED notShutdownVars

SpecShutdown == InitSupervisor /\ [][NextShutdown]_vars

Running == {port \in DOMAIN processes : processes[port] # "killed"}

\* C39: once shutdown has begun no new worker process is spawned, and when
\* shutdown completes no worker started by the supervisor is left running.
C39_NoSpawnAfterShutdown ==
    [][/\ shutdownPhase # "running" => DOMAIN processes' \subseteq DOMAIN processes
       /\ shutdownPhase' = "done" => Running' = {}]_vars

\* ---------------------------------------------------------------------------
\* Age of the window entries (server.js 413-440)
\* ---------------------------------------------------------------------------

MaxRuns == 3

\* The awaits of performFullSync / performSyncQuietly in order.
RunSteps == <<"listFiles", "getLocalFiles", "compareAndSync", "ended">>

NextRunStep(step) ==
    RunSteps[(CHOOSE i \in 1..Len(RunSteps) : RunSteps[i] = step) + 1]

BeginRun(origin) ==
    /\ Len(syncRuns) < MaxRuns
    /\ syncRuns' = Append(syncRuns, [origin |-> origin, step |-> "listFiles"])

\* start() has returned: its awaited first run has ended.
StartReturned ==
    \E i \in DOMAIN syncRuns : syncRuns[i].origin = "start" /\ syncRuns[i].step = "ended"

\* start(): the initial performFullSync begins.
start ==
    /\ \A i \in DOMAIN syncRuns : syncRuns[i].origin # "start"
    /\ BeginRun("start")
    /\ UNCHANGED <<syncIntervalId, isPaused>>

\* A run passes one await; when the run awaited by start() ends, start()
\* goes on to startPeriodicSync.
RunStep(i) ==
    /\ i \in DOMAIN syncRuns
    /\ syncRuns[i].step # "ended"
    /\ syncRuns' = [syncRuns EXCEPT ![i].step = NextRunStep(syncRuns[i].step)]
    /\ syncIntervalId' =
          IF syncRuns[i].origin = "start" /\ syncRuns'[i].step = "ended"
          THEN TRUE ELSE syncIntervalId
    /\ UNCHANGED isPaused

\* The setInterval callback: it calls performSyncQuietly whatever runs are
\* still in progress.
IntervalFires ==
    /\ syncIntervalId
    /\ BeginRun("periodic")
    /\ UNCHANGED <<syncIntervalId, isPaused>>

\* CLI command "sync".
startSync ==
    /\ StartReturned
    /\ BeginRun("manual")
    /\ UNCHANGED <<syncIntervalId, isPaused>>

\* CLI command "pause".
pauseSync ==
    /\ StartReturned
    /\ syncIntervalId
    /\ syncIntervalId' = FALSE
    /\ isPaused' = TRUE
    /\ UNCHANGED syncRuns

\* CLI command "resume".
resumeSync ==
    /\ StartReturned
    /\ isPaused \/ ~syncIntervalId
    /\ syncIntervalId' = TRUE
    /\ isPaused' = FALSE
    /\ UNCHANGED syncRuns

notReconcilerVars == <<serverVars, saverVars, lbVars, proxyVars, clientVars, handlerVars,
                       diskVars, shutdownVars, watcherVars>>

NextReconciler ==
    \/ start /\ UNCHANGED notReconcilerVars
    \/ \E i \in 1..MaxRuns : RunStep(i) /\ UNCHANGED notReconcilerVars
    \/ IntervalFires /\ UNCHANGED notReconcilerVars
    \/ startSync /\ UNCHANGED notReconcilerVars
    \/ pauseSync /\ UNCHANGED notReconcilerVars
    \/ resumeSync /\ UNCHANGED notReconcilerVars

SpecReconciler == InitClientRun /\ [][NextReconciler]_vars

InProgress == {i \in DOMAIN syncRuns : syncRuns[i].step # "ended"}

\* C40: at most one reconciler run of a client is in progress at any time.
C40_OneRunInProgress == Cardinality(InProgress) <= 1

\* ---------------------------------------------------------------------------
\* Watcher events during downloads (FileWatcher ignoreFile / unignoreFile /
\* handleFileEvent, SyncManager.downloadFile)
\* ---------------------------------------------------------------------------

MaxDownloads == 2

WatchedNames == Names \cup {<<"todo", ".txt">>}

\* Number recorded for a name in a per-name counter (absent = 0).
CountOf(c, fileName) == IF fileName \in DOMAIN c THEN c[fileName] ELSE 0

SetCount(c, fileName, n) ==
    IF n = 0 THEN Remove(c, {fileName}) ELSE Put(c, fileName, n)

\* downloadFile up to its await: ignoreFile(fileName), then the request is sent.
DownloadStart(fileName) ==
    /\ CountOf(downloading, fileName) + CountOf(unignoreTimers, fileName) < MaxDownloads
    /\ ignoredFiles' = ignoredFiles \cup {fileName}
    /\ downloading' = SetCount(downloading, fileName, CountOf(downloading, fileName) + 1)
    /\ UNCHANGED <<debounceTimers, unignoreTimers>>

\* downloadFile after its await: the file is written and unignoreFile is
\* scheduled 2000 ms later; the conflict branch of uploadFile calls
\* unignoreFile once more, 500 ms after the download.
DownloadDone(fileName, viaConflict) ==
    /\ CountOf(downloading, fileName) > 0
    /\ downloading' = SetCount(downloading, fileName, CountOf(downloading, fileName) - 1)
    /\ unignoreTimers' = SetCount(unignoreTimers, fileName,
                                  CountOf(unignoreTimers, fileName)
                                  + (IF viaConflict THEN 2 ELSE 1))
    /\ UNCHANGED <<ignoredFiles, debounceTimers>>

\* downloadFile, catch branch: the request failed and unignoreFile is called
\* at once.
DownloadFails(fileName) ==
    /\ CountOf(downloading, fileName) > 0
    /\ downloading' = SetCount(downloading, fileName, CountOf(downloading, fileName) - 1)
    /\ ignoredFiles' = ignoredFiles \ {fileName}
    /\ UNCHANGED <<debounceTimers, unignoreTimers>>

\* A scheduled unignoreFile(fileName) runs: the name leaves the set whatever
\* other downloads of it are in flight.
unignoreFile(fileName) ==
    /\ CountOf(unignoreTimers, fileName) > 0
    /\ unignoreTimers' = SetCount(unignoreTimers, fileName,
                                  CountOf(unignoreTimers, fileName) - 1)
    /\ ignoredFiles' = ignoredFiles \ {fileName}
    /\ UNCHANGED <<debounceTimers, downloading>>

\* handleFileEvent: an event of the file system for fileName; dropped when the
\* name is ignored, otherwise the debounce timer of the name is (re)started.
handleFileEvent(fileName) ==
    /\ debounceTimers' = IF fileName \in ignoredFiles THEN debounceTimers
                         ELSE debounceTimers \cup {fileName}
    /\ UNCHANGED <<ignoredFiles, downloading, unignoreTimers>>

\* The debounce timer expires: onChange delivers the event to the sync engine
\* without looking at ignoredFiles again.
DebounceFires(fileName) ==
    /\ fileName \in debounceTimers
    /\ debounceTimers' = debounceTimers \ {fileName}
    /\ UNCHANGED <<ignoredFiles, downloading, unignoreTimers>>

notWatcherVars == <<serverVars, saverVars, lbVars, proxyVars, clientVars, handlerVars,
                    diskVars, shutdownVars, reconcilerVars>>

NextWatcher ==
    \/ \E fileName \in WatchedNames : DownloadStart(fileName) /\ UNCHANGED notWatcherVars
    \/ \E fileName \in WatchedNames, viaConflict \in BOOLEAN :
          DownloadDone(fileName, viaConflict) /\ UNCHANGED notWatcherVars
    \/ \E fileName \in WatchedNames : DownloadFails(fileName) /\ UNCHANGED notWatcherVars
    \/ \E fileName \in WatchedNames : unignoreFile(fileName) /\ UNCHANGED notWatcherVars
    \/ \E fileName \in WatchedNames : handleFileEvent(fileName) /\ UNCHANGED notWatcherVars
    \/ \E fileName \in WatchedNames : DebounceFires(fileName) /\ UNCHANGED notWatcherVars

SpecWatcher == InitClientRun /\ [][NextWatcher]_vars

\* An event for fileName is handed to the sync engine in this step.
Delivered(fileName) == fileName \in debounceTimers /\ fileName \notin debounceTimers'

\* C34: while a download of a name is in flight no watcher event for that
\* name is delivered to the sync engine.
C34_NoEventDuringDownload ==
    [][\A fileName \in WatchedNames :
          Delivered(fileName) => CountOf(downloading, fileName) = 0]_vars

====
